---- MODULE Spec2Model ----
(***************************************************************************)
(* A model of the @al/session client: the session state machine            *)
(* (AlSessionInstance, src/src/al-session.ts) and the conduit relay        *)
(* transport (AlConduitClient, src/unnamed/part_006).                      *)
(*                                                                         *)
(* JavaScript objects are modelled as a pair (typ, val): typ gives the     *)
(* result of typeof for every property ("undefined" when the property is   *)
(* absent) and val gives the property's value (a fixed default when the    *)
(* property is absent or of the wrong type).                               *)
(***************************************************************************)
EXTENDS Integers, Sequences, FiniteSets, TLC

VARIABLES
    now,              \* getCurrentTimestamp(), in seconds
    sessionIsActive,  \* AlSessionInstance.sessionIsActive
    sessionData,      \* AlSessionInstance.sessionData
    resolvedAccount,  \* AlSessionInstance.resolvedAccount
    resolutionGuard,  \* AlSessionInstance.resolutionGuard (fulfilled or pending)
    storage,          \* the persisted "al_session" record
    options,          \* AlSessionInstance.options
    notifyStream,     \* the events triggered on notifyStream, in order
    persistedSession, \* the constructor's deferred reinstatement
    microtasks,       \* continuations queued behind an await
    lookups,          \* getAccountDetails lookups of setActingAccount(id) in flight
    inflight,         \* acting account resolutions in flight
    lastCall,         \* the operation that produced this state, with its input
    refCount,         \* AlConduitClient.refCount
    document,         \* AlConduitClient.document
    frames,           \* the conduitClient containers in the document
    listeners,        \* the clients whose onReceiveMessage listens to window messages
    conduitWindow,    \* AlConduitClient.conduitWindow
    conduitOrigin,    \* AlConduitClient.conduitOrigin
    ready,            \* AlConduitClient.ready (fulfilled or pending)
    requests,         \* the keys of AlConduitClient.requests
    externalSessions, \* AlConduitClient.externalSessions
    requestIndex,     \* AlConduitClient.requestIndex
    issued,           \* the requests issued so far, with the settlements of their promises
    waiting,          \* the requests whose callback on ready has not run yet
    timers,           \* the requests whose timeout is armed
    readinessTimers,  \* the validateReadiness timers that are armed
    posted,           \* the messages posted to the conduit window, in order
    conduitCall,      \* the conduit operation that produced this state
    detectionPromise, \* AlSessionDetector.detectionPromise (static)
    promises,         \* the promises detectSession has created, with their settlements
    authenticated,    \* AlSessionDetector.authenticated
    useAuth0,         \* AlSessionDetector.useAuth0
    cycle,            \* the detection cycle: the request or callback it is waiting for
    requested         \* the requests the detector has issued, in order

sessionVars == <<now, sessionIsActive, sessionData, resolvedAccount, resolutionGuard,
                 storage, options, notifyStream, persistedSession, microtasks,
                 lookups, inflight, lastCall>>

conduitVars == <<refCount, document, frames, listeners, conduitWindow, conduitOrigin, ready,
                 requests, externalSessions, requestIndex, issued, waiting, timers,
                 readinessTimers, posted, conduitCall>>

detectorVars == <<detectionPromise, promises, authenticated, useAuth0, cycle, requested>>

vars == <<sessionVars, conduitVars, detectorVars>>

(***************************************************************************)
(* Bounds                                                                  *)
(***************************************************************************)
MaxTime == 1
MaxLog == 4
MaxPending == 2
MaxRequests == 2
MaxStarts == 1
MaxCycles == 2
MaxRefs == 3
MaxEvents == 6
MaxSegments == 4
MaxOccurrences == 2

(***************************************************************************)
(* JavaScript values                                                       *)
(***************************************************************************)
Locations == {"L1", "L2"}
NoLocation == ""

UserFields == {"id", "name", "email", "linked_users", "created", "modified", "active"}
AccountFields == {"id", "name", "accessible_locations", "default_location",
                  "created", "modified", "active"}
AuthFields == {"token", "token_expiration", "user", "account"}

UserSchema == [id |-> "string", name |-> "string", email |-> "string",
               linked_users |-> "object", created |-> "object", modified |-> "object"]
AccountSchema == [id |-> "string", name |-> "string", accessible_locations |-> "object",
                  default_location |-> "string", created |-> "object", modified |-> "object"]
AuthSchema == [token |-> "string", token_expiration |-> "number",
               user |-> "object", account |-> "object"]

FullUserTyp == [id |-> "string", name |-> "string", email |-> "string",
                linked_users |-> "object", created |-> "object", modified |-> "object",
                active |-> "boolean"]
FullAccountTyp == [id |-> "string", name |-> "string", accessible_locations |-> "object",
                   default_location |-> "string", created |-> "object",
                   modified |-> "object", active |-> "boolean"]
FullAuthTyp == [token |-> "string", token_expiration |-> "number",
                user |-> "object", account |-> "object"]

EmptyUserVal == [id |-> "", name |-> "", email |-> "", linked_users |-> "",
                 created |-> "", modified |-> "", active |-> ""]
EmptyAccountVal == [id |-> "", name |-> "", accessible_locations |-> {},
                    default_location |-> "", created |-> "", modified |-> "",
                    active |-> ""]

\* obj without property f
Without(obj, empty, f) ==
    [typ |-> [obj.typ EXCEPT ![f] = "undefined"], val |-> [obj.val EXCEPT ![f] = empty[f]]]
\* obj with property f holding a value of type tag (not the type the schema asks for)
Mistyped(obj, empty, f, tag) ==
    [typ |-> [obj.typ EXCEPT ![f] = tag], val |-> [obj.val EXCEPT ![f] = empty[f]]]

\* Object.assign that leaves the properties the target already has
ObjectAssignMissing(target, source) ==
    [typ |-> [f \in DOMAIN target.typ |->
                 IF target.typ[f] = "undefined" THEN source.typ[f] ELSE target.typ[f]],
     val |-> [f \in DOMAIN target.val |->
                 IF target.typ[f] = "undefined" THEN source.val[f] ELSE target.val[f]]]

\* Object.assign( target, source ): every own property of source overwrites target's
ObjectAssign(target, source) ==
    [typ |-> [f \in DOMAIN target.typ |->
                 IF source.typ[f] # "undefined" THEN source.typ[f] ELSE target.typ[f]],
     val |-> [f \in DOMAIN target.val |->
                 IF source.typ[f] # "undefined" THEN source.val[f] ELSE target.val[f]]]

(***************************************************************************)
(* The null session                                                        *)
(***************************************************************************)
NullUser ==
    [typ |-> FullUserTyp,
     val |-> [id |-> "0", name |-> "Unauthenticated User",
              email |-> "unauthenticated_user@unknown.com", linked_users |-> "[]",
              created |-> "0", modified |-> "0", active |-> "false"]]
NullAccount ==
    [typ |-> FullAccountTyp,
     val |-> [id |-> "0", name |-> "Unknown Company", accessible_locations |-> {},
              default_location |-> "", created |-> "0", modified |-> "0",
              active |-> "false"]]
AlNullSessionDescriptor ==
    [authentication |-> [user |-> NullUser, account |-> NullAccount,
                         token |-> "", token_expiration |-> 0],
     acting |-> NullAccount,
     boundLocationId |-> NoLocation]

(***************************************************************************)
(* The accounts and users of the model                                     *)
(***************************************************************************)
AccountA1 ==
    [typ |-> FullAccountTyp,
     val |-> [id |-> "a1", name |-> "Acme", accessible_locations |-> {"L1"},
              default_location |-> "L1", created |-> "c1", modified |-> "m1",
              active |-> "true"]]
AccountA2 ==
    [typ |-> FullAccountTyp,
     val |-> [id |-> "a2", name |-> "Beta", accessible_locations |-> {"L1", "L2"},
              default_location |-> "L2", created |-> "c2", modified |-> "m2",
              active |-> "true"]]
\* a record of account a2 that does not carry the optional property active
AccountA2Partial == Without(AccountA2, EmptyAccountVal, "active")
UserU1 ==
    [typ |-> FullUserTyp,
     val |-> [id |-> "u1", name |-> "Ursula", email |-> "u1@example.com",
              linked_users |-> "[]", created |-> "c1", modified |-> "m1",
              active |-> "true"]]
UserU2 ==
    [typ |-> FullUserTyp,
     val |-> [id |-> "u2", name |-> "Ulrich", email |-> "u2@example.com",
              linked_users |-> "[]", created |-> "c2", modified |-> "m2",
              active |-> "true"]]
UserU2Partial == Without(UserU2, EmptyUserVal, "active")

AccountIds == {"a1", "a2"}
\* the identity backend's record of an account: AIMSClient.getAccountDetails( id )
AccountDetails(id) == IF id = "a1" THEN AccountA1 ELSE AccountA2


(***************************************************************************)
(* Session descriptors as they arrive: proposals and persisted records     *)
(***************************************************************************)
NoUser == [typ |-> [f \in UserFields |-> "undefined"], val |-> EmptyUserVal]
NoAccount == [typ |-> [f \in AccountFields |-> "undefined"], val |-> EmptyAccountVal]

Proposal(user, account, token, expiration, hasActing, acting) ==
    [authPresent |-> TRUE,
     authentication |-> [typ |-> FullAuthTyp, token |-> token,
                         token_expiration |-> expiration,
                         user |-> user, account |-> account],
     hasActing |-> hasActing,
     acting |-> acting,
     boundLocationId |-> NoLocation]

NoProposal ==
    [authPresent |-> FALSE,
     authentication |-> [typ |-> [f \in AuthFields |-> "undefined"], token |-> "",
                         token_expiration |-> 0, user |-> NoUser, account |-> NoAccount],
     hasActing |-> FALSE,
     acting |-> NoAccount,
     boundLocationId |-> NoLocation]

\* the proposal without property f of its authentication object
WithoutAuthField(p, f) ==
    [p EXCEPT !.authentication.typ[f] = "undefined",
              !.authentication.token = IF f = "token" THEN "" ELSE @,
              !.authentication.token_expiration = IF f = "token_expiration" THEN 0 ELSE @,
              !.authentication.user = IF f = "user" THEN NoUser ELSE @,
              !.authentication.account = IF f = "account" THEN NoAccount ELSE @]
\* the proposal with property f of its authentication object of type tag
MistypedAuthField(p, f, tag) ==
    [WithoutAuthField(p, f) EXCEPT !.authentication.typ[f] = tag]

\* JSON.stringify( sessionData ) as AlCabinet writes it to localStorage
Serialize(descriptor) ==
    [authPresent |-> TRUE,
     authentication |-> [typ |-> FullAuthTyp,
                         token |-> descriptor.authentication.token,
                         token_expiration |-> descriptor.authentication.token_expiration,
                         user |-> descriptor.authentication.user,
                         account |-> descriptor.authentication.account],
     hasActing |-> TRUE,
     acting |-> descriptor.acting,
     boundLocationId |-> descriptor.boundLocationId]

EmptyStorage == [present |-> FALSE, record |-> NoProposal]

(***************************************************************************)
(* validateSessionDescriptor                                               *)
(***************************************************************************)
\* requireProps: every property is an own property of the target and has the type asked
requireProps(typ, properties) ==
    \A propName \in DOMAIN properties : typ[propName] = properties[propName]

\* validateSessionDescriptor without the check of the account's properties
validateSessionDescriptorNoAccount(descriptor) ==
    /\ descriptor.authPresent
    /\ requireProps(descriptor.authentication.typ, AuthSchema)
    /\ requireProps(descriptor.authentication.user.typ, UserSchema)

\* TRUE iff validateSessionDescriptor( descriptor ) returns without throwing
validateSessionDescriptor(descriptor) ==
    /\ descriptor.authPresent
    /\ requireProps(descriptor.authentication.typ, AuthSchema)
    /\ requireProps(descriptor.authentication.user.typ, UserSchema)
    /\ requireProps(descriptor.authentication.account.typ, AccountSchema)

(***************************************************************************)
(* The session instance's operations, as functions of the instance state s *)
(***************************************************************************)
NullId == "null"
\* the errors the operations throw (or reject with): "schema" is the validation error of
\* validateSessionDescriptor, "expired" the one of an expiration in the past, "usage" the
\* usage error of setActingAccount, "request" the failure of an external request
NoError == ""
NoEntitlements == ""
\* AlInsightLocations: the datacenters the locator knows
AlInsightLocations == Locations

S == [sessionIsActive |-> sessionIsActive, sessionData |-> sessionData,
      resolvedAccount |-> resolvedAccount, resolutionGuard |-> resolutionGuard,
      storage |-> storage, notifyStream |-> notifyStream,
      microtasks |-> microtasks, lookups |-> lookups, inflight |-> inflight]

\* an event on notifyStream, with what its handlers find when they run: whether the
\* resolution guard is fulfilled
Event(s, type, id) == [type |-> type, id |-> id, guard |-> s.resolutionGuard]

\* notifyStream.trigger( event )
Trigger(s, type, id) ==
    [s EXCEPT !.notifyStream = Append(@, Event(s, type, id))]

\* storage.set( "session", sessionData )
StorageSet(s) ==
    [s EXCEPT !.storage = [present |-> TRUE, record |-> Serialize(s.sessionData)]]

\* storage.destroy()
StorageDestroy(s) == [s EXCEPT !.storage = EmptyStorage]

\* getPrimaryAccountId without the check of isActive()
getPrimaryAccountIdUnguarded(s) == s.sessionData.authentication.account.val.id

getPrimaryAccountId(s) ==
    IF s.sessionIsActive THEN s.sessionData.authentication.account.val.id ELSE NullId

\* getActingAccountId that answers with the primary account
getActingAccountIdOfPrimary(s) == getPrimaryAccountId(s)

getActingAccountId(s) ==
    IF s.sessionIsActive THEN s.sessionData.acting.val.id ELSE NullId

getToken(s) == s.sessionData.authentication.token

setActiveDatacenter(s, insightLocationId) ==
    IF \/ s.sessionData.boundLocationId = NoLocation
       \/ insightLocationId # s.sessionData.boundLocationId
    THEN LET s1 == [s EXCEPT !.sessionData.boundLocationId = insightLocationId]
             s2 == StorageSet(s1)
         IN  IF insightLocationId \in AlInsightLocations
             THEN Trigger(s2, "AlActiveDatacenterChanged", insightLocationId)
             ELSE s2
    ELSE s

\* activateSession that announces the session whenever it is active
activateSessionAnnouncing(s) ==
    LET s1 == IF s.sessionData.authentication.token_expiration > now
              THEN [s EXCEPT !.sessionIsActive = TRUE]
              ELSE s
    IN  IF s1.sessionIsActive
        THEN Trigger(s1, "AlSessionStarted", s1.sessionData.authentication.account.val.id)
        ELSE s1

activateSession(s) ==
    LET wasActive == s.sessionIsActive
        s1 == IF s.sessionData.authentication.token_expiration > now
              THEN [s EXCEPT !.sessionIsActive = TRUE]
              ELSE s
    IN  IF s1.sessionIsActive /\ ~wasActive
        THEN Trigger(s1, "AlSessionStarted", s1.sessionData.authentication.account.val.id)
        ELSE s1

\* deactivateSession without storage.destroy()
deactivateSessionKeepStorage(s) ==
    LET s1 == [s EXCEPT !.sessionData = AlNullSessionDescriptor,
                        !.sessionIsActive = FALSE]
    IN  Trigger(s1, "AlSessionEnded", "")

deactivateSession(s) ==
    LET s1 == [s EXCEPT !.sessionData = AlNullSessionDescriptor,
                        !.sessionIsActive = FALSE]
        s2 == StorageDestroy(s1)
    IN  Trigger(s2, "AlSessionEnded", "")

setTokenInfo(s, token, tokenExpiration) ==
    StorageSet([s EXCEPT !.sessionData.authentication.token = token,
                         !.sessionData.authentication.token_expiration = tokenExpiration])

\* the continuation of setAuthentication behind its await of setActingAccount
Continue(s, cont) == IF cont = "auth" THEN StorageSet(s) ELSE s

Microtask(kind, account, consolidated, cont) ==
    [kind |-> kind, account |-> account, consolidated |-> consolidated, cont |-> cont]

\* the location that setActingAccount binds: always the default location of the account
TargetLocationIdDefault(s, account) == account.val.default_location

\* the location that setActingAccount binds: the bound one if the account can access it
TargetLocationId(s, account) ==
    IF s.sessionData.boundLocationId \in account.val.accessible_locations
    THEN s.sessionData.boundLocationId
    ELSE account.val.default_location

\* setActingAccount that starts a resolution whether or not the account changed
setActingAccountAlways(s, account, cont) ==
    LET s1 == [s EXCEPT !.sessionData.acting = account]
        targetLocationId == TargetLocationId(s1, account)
        s2 == setActiveDatacenter(s1, targetLocationId)
        s3 == [s2 EXCEPT !.resolutionGuard = FALSE]
        s4 == Trigger(s3, "AlActingAccountChanged", s3.sessionData.acting.val.id)
        s5 == StorageSet(s4)
    IN  [s5 EXCEPT !.microtasks =
             Append(@, Microtask("resolve", account, options.useConsolidatedResolver, cont))]

\* setActingAccount that starts a resolution without triggering AlActingAccountChangedEvent
setActingAccountSilent(s, account, cont) ==
    LET s1 == [s EXCEPT !.sessionData.acting = account]
        targetLocationId == TargetLocationId(s1, account)
        s2 == setActiveDatacenter(s1, targetLocationId)
        s3 == [s2 EXCEPT !.resolutionGuard = FALSE]
        s5 == StorageSet(s3)
    IN  [s5 EXCEPT !.microtasks =
             Append(@, Microtask("resolve", account, options.useConsolidatedResolver, cont))]

\* setActingAccount( account ) with an account descriptor, up to its first await
setActingAccount(s, account, cont) ==
    LET previousAccount == s.sessionData.acting
        actingAccountChanged == s.sessionData.acting.val.id # account.val.id
        s1 == [s EXCEPT !.sessionData.acting = account]
        targetLocationId == TargetLocationId(s1, account)
        s2 == setActiveDatacenter(s1, targetLocationId)
    IN  IF ~options.resolveAccountMetadata
        THEN LET s3 == [s2 EXCEPT !.resolvedAccount =
                            [hasAccount |-> TRUE, actingAccount |-> account,
                             entitlements |-> NoEntitlements,
                             primaryEntitlements |-> NoEntitlements]]
                 s4 == Trigger(s3, "AlActingAccountChanged", account.val.id)
                 s5 == [s4 EXCEPT !.resolutionGuard = TRUE]
                 s6 == Trigger(s5, "AlActingAccountResolved", account.val.id)
             IN  IF cont = "auth"
                 THEN [s6 EXCEPT !.microtasks =
                           Append(@, Microtask("persist", NoAccount, FALSE, cont))]
                 ELSE s6
        ELSE IF actingAccountChanged \/ ~s2.resolutionGuard
        THEN LET s3 == [s2 EXCEPT !.resolutionGuard = FALSE]
                 s4 == Trigger(s3, "AlActingAccountChanged", s3.sessionData.acting.val.id)
                 s5 == StorageSet(s4)
             IN  [s5 EXCEPT !.microtasks =
                      Append(@, Microtask("resolve", account,
                                          options.useConsolidatedResolver, cont))]
        ELSE IF cont = "auth"
             THEN [s2 EXCEPT !.microtasks =
                       Append(@, Microtask("persist", NoAccount, FALSE, cont))]
             ELSE s2

\* setActingAccount( account ) with an account ID: the lookup is issued, or the call throws
setActingAccountById(s, id, cont) ==
    IF id = ""
    THEN [s |-> s, error |-> "usage"]
    ELSE [s |-> [s EXCEPT !.lookups = Append(@, [id |-> id, cont |-> cont])],
          error |-> NoError]

Resolution(kind, account, primaryId, cont) ==
    [kind |-> kind, account |-> account, primaryId |-> primaryId, cont |-> cont]

\* resolveActingAccount( account ), up to Promise.all
resolveActingAccount(s, account, cont) ==
    [s EXCEPT !.inflight =
         Append(@, Resolution("standard", account, getPrimaryAccountId(s), cont))]

\* resolveActingAccountConsolidated( account ), up to its await
resolveActingAccountConsolidated(s, account, cont) ==
    [s EXCEPT !.inflight =
         Append(@, Resolution("consolidated", account, getPrimaryAccountId(s), cont))]

\* the then-branch of resolveActingAccount (and the try-branch of the consolidated one)
resolveActingAccountDone(s, r) ==
    LET actingEntitlements ==
            IF r.account.val.id # r.primaryId THEN r.account.val.id ELSE r.primaryId
        resolved == [hasAccount |-> TRUE,
                     actingAccount |-> AccountDetails(r.account.val.id),
                     entitlements |-> actingEntitlements,
                     primaryEntitlements |-> r.primaryId]
        s1 == [s EXCEPT !.resolvedAccount = resolved, !.resolutionGuard = TRUE]
        s2 == Trigger(s1, "AlActingAccountResolved", resolved.actingAccount.val.id)
    IN  Continue(s2, r.cont)

\* a rejection handler that deactivates the session
resolveActingAccountFailedDeactivating(s, r) == deactivateSession(s)

\* the rejection handler of resolveActingAccount: the error is logged and passed on
resolveActingAccountFailed(s, r) == s

NoOptions == [actingKind |-> "none", actingId |-> "", actingAccount |-> NoAccount,
              locationId |-> NoLocation]

\* setAuthentication once the proposal is validated: the proposal is made effective
makeEffective(s, proposal, opts) ==
    LET s1 == [s EXCEPT
                !.sessionData.authentication.user =
                    ObjectAssign(@, proposal.authentication.user),
                !.sessionData.authentication.account =
                    ObjectAssign(@, proposal.authentication.account),
                !.sessionData.authentication.token = proposal.authentication.token,
                !.sessionData.authentication.token_expiration =
                    proposal.authentication.token_expiration]
        s2 == IF opts.locationId # NoLocation
              THEN [s1 EXCEPT !.sessionData.boundLocationId = opts.locationId]
              ELSE s1
        s3 == activateSession(s2)
    IN  IF opts.actingKind = "id"
        THEN setActingAccountById(s3, opts.actingId, "auth")
        ELSE IF opts.actingKind = "record"
        THEN [s |-> setActingAccount(s3, opts.actingAccount, "auth"), error |-> NoError]
        ELSE IF proposal.hasActing
        THEN [s |-> setActingAccount(s3, proposal.acting, "auth"), error |-> NoError]
        ELSE [s |-> setActingAccount(s3, proposal.authentication.account, "auth"),
              error |-> NoError]

\* setAuthentication without the check of the expiration timestamp
setAuthenticationUnchecked(s, proposal, opts) ==
    IF ~validateSessionDescriptor(proposal)
    THEN [s |-> s, error |-> "schema"]
    ELSE makeEffective(s, proposal, opts)

\* setAuthentication( proposal, options ), up to its await of setActingAccount
setAuthentication(s, proposal, opts) ==
    IF ~validateSessionDescriptor(proposal)
    THEN [s |-> s, error |-> "schema"]
    ELSE IF proposal.authentication.token_expiration <= now
    THEN [s |-> s, error |-> "expired"]
    ELSE makeEffective(s, proposal, opts)

(***************************************************************************)
(* Inputs                                                                  *)
(***************************************************************************)
Expirations == {1, MaxTime + 1}

ValidProposals ==
    { Proposal(UserU1, AccountA1, "t1", e, FALSE, NoAccount) : e \in Expirations }
    \cup { Proposal(UserU2Partial, AccountA2Partial, "t2", e, FALSE, NoAccount) :
              e \in Expirations }
    \cup { Proposal(UserU1, AccountA1, "t1", MaxTime + 1, TRUE, AccountA2) }

BaseProposal == Proposal(UserU1, AccountA1, "t1", MaxTime + 1, FALSE, NoAccount)
WrongTag(tag) == IF tag = "string" THEN "number" ELSE "string"

MalformedProposals ==
    {NoProposal}
    \cup { WithoutAuthField(BaseProposal, f) : f \in AuthFields }
    \cup { MistypedAuthField(BaseProposal, f, WrongTag(AuthSchema[f])) : f \in AuthFields }
    \cup { [BaseProposal EXCEPT !.authentication.user = Without(@, EmptyUserVal, f)] :
             f \in DOMAIN UserSchema }
    \cup { [BaseProposal EXCEPT !.authentication.user =
                Mistyped(@, EmptyUserVal, f, WrongTag(UserSchema[f]))] :
             f \in DOMAIN UserSchema }
    \cup { [BaseProposal EXCEPT !.authentication.account = Without(@, EmptyAccountVal, f)] :
             f \in DOMAIN AccountSchema }
    \cup { [BaseProposal EXCEPT !.authentication.account =
                Mistyped(@, EmptyAccountVal, f, WrongTag(AccountSchema[f]))] :
             f \in DOMAIN AccountSchema }

Proposals == ValidProposals \cup MalformedProposals

AuthenticationOptions ==
    { NoOptions,
      [NoOptions EXCEPT !.actingKind = "record", !.actingAccount = AccountA2],
      [NoOptions EXCEPT !.actingKind = "id", !.actingId = "a2"],
      [NoOptions EXCEPT !.locationId = "L2"] }

\* the calls of setAuthentication: every proposal without options, and one with each option
AuthenticationInputs ==
    { <<proposal, NoOptions>> : proposal \in Proposals }
    \cup { <<BaseProposal, opts>> : opts \in AuthenticationOptions }

ActingAccounts == {AccountA1, AccountA2}
ActingAccountIds == {"", "a1", "a2"}
SessionOptions == [resolveAccountMetadata : BOOLEAN, useConsolidatedResolver : BOOLEAN]

\* what localStorage may hold when the instance is constructed
PersistedRecords ==
    { [Proposal(UserU1, AccountA1, "t1", e, TRUE, AccountA1) EXCEPT !.boundLocationId = "L1"] :
        e \in {-1, 0, MaxTime + 1} }
    \cup { MistypedAuthField(Proposal(UserU1, AccountA1, "t1", MaxTime + 1, TRUE, AccountA1),
                             "account", "string") }

(***************************************************************************)
(* The session instance as a state machine                                 *)
(***************************************************************************)
\* the operation a step performs: its name, the ID its argument carries (an account ID,
\* a location ID or, for the authentication methods, a token) and the error it throws
Call(op, id, error) == [op |-> op, id |-> id, error |-> error]

RemoveAt(seq, i) == SubSeq(seq, 1, i - 1) \o SubSeq(seq, i + 1, Len(seq))

\* the continuation of setActingAccount( id ) behind its await of
\* AIMSClient.getAccountDetails: lookup i has returned the details of its account
onAccountDetails(s, i) ==
    setActingAccount([s EXCEPT !.lookups = RemoveAt(@, i)],
                     AccountDetails(s.lookups[i].id), s.lookups[i].cont)

\* the instance state s becomes the next state, with cap events on the stream at most
ApplyWithin(s, cap) ==
    /\ Len(s.notifyStream) <= cap
    /\ Len(s.microtasks) + Len(s.lookups) + Len(s.inflight) <= MaxPending
    /\ sessionIsActive' = s.sessionIsActive
    /\ sessionData' = s.sessionData
    /\ resolvedAccount' = s.resolvedAccount
    /\ resolutionGuard' = s.resolutionGuard
    /\ storage' = s.storage
    /\ notifyStream' = s.notifyStream
    /\ microtasks' = s.microtasks
    /\ lookups' = s.lookups
    /\ inflight' = s.inflight

Apply(s) == ApplyWithin(s, MaxLog)

\* the constructor without storage.destroy()
ConstructedKeepStorage(persisted) ==
    /\ now = 0
    /\ sessionIsActive = FALSE
    /\ sessionData = AlNullSessionDescriptor
    /\ resolvedAccount = [hasAccount |-> FALSE, actingAccount |-> NoAccount,
                          entitlements |-> NoEntitlements,
                          primaryEntitlements |-> NoEntitlements]
    /\ resolutionGuard = FALSE
    /\ options = [resolveAccountMetadata |-> TRUE, useConsolidatedResolver |-> FALSE]
    /\ notifyStream = <<>>
    /\ microtasks = <<>>
    /\ lookups = <<>>
    /\ inflight = <<>>
    /\ lastCall = Call("constructor", "", NoError)
    /\ IF /\ persisted.present
          /\ persisted.record.authPresent
          /\ persisted.record.authentication.typ["token_expiration"] = "number"
          /\ persisted.record.authentication.token_expiration >= now
       THEN /\ persistedSession = persisted
            /\ storage = persisted
       ELSE /\ persistedSession = EmptyStorage
            /\ storage = persisted

\* the constructor: the persisted record is reinstated behind setTimeout( 0 ), or destroyed
Constructed(persisted) ==
    /\ now = 0
    /\ sessionIsActive = FALSE
    /\ sessionData = AlNullSessionDescriptor
    /\ resolvedAccount = [hasAccount |-> FALSE, actingAccount |-> NoAccount,
                          entitlements |-> NoEntitlements,
                          primaryEntitlements |-> NoEntitlements]
    /\ resolutionGuard = FALSE
    /\ options = [resolveAccountMetadata |-> TRUE, useConsolidatedResolver |-> FALSE]
    /\ notifyStream = <<>>
    /\ microtasks = <<>>
    /\ lookups = <<>>
    /\ inflight = <<>>
    /\ lastCall = Call("constructor", "", NoError)
    /\ IF /\ persisted.present
          /\ persisted.record.authPresent
          /\ persisted.record.authentication.typ["token_expiration"] = "number"
          /\ persisted.record.authentication.token_expiration >= now
       THEN /\ persistedSession = persisted
            /\ storage = persisted
       ELSE /\ persistedSession = EmptyStorage
            /\ storage = EmptyStorage

SessionInit ==
    \E persisted \in {EmptyStorage} \cup
                     { [present |-> TRUE, record |-> r] : r \in PersistedRecords } :
        Constructed(persisted)

\* the deferred reinstatement; setAuthentication is async, so its failure is a rejected
\* promise and the catch block around the call does not run
Reinstate ==
    /\ persistedSession.present
    /\ microtasks = <<>>
    /\ LET r == setAuthentication(S, persistedSession.record, NoOptions)
       IN  /\ Apply(r.s)
           /\ lastCall' = Call("reinstate", "", r.error)
    /\ persistedSession' = EmptyStorage
    /\ UNCHANGED <<now, options, conduitVars, detectorVars>>

SetAuthentication(proposal, opts) ==
    /\ LET r == setAuthentication(S, proposal, opts)
       IN  /\ Apply(r.s)
           /\ lastCall' = Call("setAuthentication", "", r.error)
    /\ UNCHANGED <<now, options, persistedSession, conduitVars, detectorVars>>

SetActingAccount(account) ==
    /\ Apply(setActingAccount(S, account, "none"))
    /\ lastCall' = Call("setActingAccount", account.val.id, NoError)
    /\ UNCHANGED <<now, options, persistedSession, conduitVars, detectorVars>>

SetActingAccountById(id) ==
    /\ LET r == setActingAccountById(S, id, "none")
       IN  /\ Apply(r.s)
           /\ lastCall' = Call("setActingAccountById", id, r.error)
    /\ UNCHANGED <<now, options, persistedSession, conduitVars, detectorVars>>

SetActiveDatacenter(insightLocationId) ==
    /\ Apply(setActiveDatacenter(S, insightLocationId))
    /\ lastCall' = Call("setActiveDatacenter", insightLocationId, NoError)
    /\ UNCHANGED <<now, options, persistedSession, conduitVars, detectorVars>>

SetTokenInfo(token, tokenExpiration) ==
    /\ Apply(setTokenInfo(S, token, tokenExpiration))
    /\ lastCall' = Call("setTokenInfo", "", NoError)
    /\ UNCHANGED <<now, options, persistedSession, conduitVars, detectorVars>>

ActivateSession ==
    /\ Apply(activateSession(S))
    /\ lastCall' = Call("activateSession", "", NoError)
    /\ UNCHANGED <<now, options, persistedSession, conduitVars, detectorVars>>

DeactivateSession ==
    /\ Apply(deactivateSession(S))
    /\ lastCall' = Call("deactivateSession", "", NoError)
    /\ UNCHANGED <<now, options, persistedSession, conduitVars, detectorVars>>

SetOptions(o) ==
    /\ options' = o
    /\ lastCall' = Call("setOptions", "", NoError)
    /\ UNCHANGED <<now, sessionIsActive, sessionData, resolvedAccount, resolutionGuard,
                   storage, notifyStream, persistedSession, microtasks, lookups, inflight,
                   conduitVars, detectorVars>>

\* the continuation at the head of the microtask queue runs
RunMicrotask ==
    /\ microtasks # <<>>
    /\ LET m == Head(microtasks)
           s0 == [S EXCEPT !.microtasks = Tail(@)]
       IN  Apply(IF m.kind = "persist" THEN Continue(s0, m.cont)
                 ELSE IF m.consolidated
                 THEN resolveActingAccountConsolidated(s0, m.account, m.cont)
                 ELSE resolveActingAccount(s0, m.account, m.cont))
    /\ lastCall' = Call("microtask", "", NoError)
    /\ UNCHANGED <<now, options, persistedSession, conduitVars, detectorVars>>

\* a task of the event loop runs once the microtask queue is empty, and a network reply or
\* a second of time comes after the constructor's setTimeout( 0 )
TaskMayRun == microtasks = <<>> /\ ~persistedSession.present

\* AIMSClient.getAccountDetails( id ) of setActingAccount( id ) returns
LookupReturn(i) ==
    /\ TaskMayRun
    /\ i \in DOMAIN lookups
    /\ lookups[i].id \in AccountIds
    /\ Apply(onAccountDetails(S, i))
    /\ lastCall' = Call("lookupReturn", lookups[i].id, NoError)
    /\ UNCHANGED <<now, options, persistedSession, conduitVars, detectorVars>>

LookupFail(i) ==
    /\ TaskMayRun
    /\ i \in DOMAIN lookups
    /\ Apply([S EXCEPT !.lookups = RemoveAt(@, i)])
    /\ lastCall' = Call("lookupFail", lookups[i].id, "request")
    /\ UNCHANGED <<now, options, persistedSession, conduitVars, detectorVars>>

\* the requests of an acting account resolution all return
ResolutionReturn(i) ==
    /\ TaskMayRun
    /\ i \in DOMAIN inflight
    /\ LET s0 == [S EXCEPT !.inflight = RemoveAt(@, i)]
       IN  Apply(resolveActingAccountDone(s0, inflight[i]))
    /\ lastCall' = Call("resolutionReturn", inflight[i].account.val.id, NoError)
    /\ UNCHANGED <<now, options, persistedSession, conduitVars, detectorVars>>

\* a request of an acting account resolution fails: the consolidated resolver falls back
\* on resolveActingAccount, resolveActingAccount rejects
ResolutionFail(i) ==
    /\ TaskMayRun
    /\ i \in DOMAIN inflight
    /\ LET s0 == [S EXCEPT !.inflight = RemoveAt(@, i)]
       IN  Apply(IF inflight[i].kind = "consolidated"
                 THEN resolveActingAccount(s0, inflight[i].account, inflight[i].cont)
                 ELSE resolveActingAccountFailed(s0, inflight[i]))
    /\ lastCall' = Call("resolutionFail", inflight[i].account.val.id,
                        IF inflight[i].kind = "consolidated" THEN NoError ELSE "request")
    /\ UNCHANGED <<now, options, persistedSession, conduitVars, detectorVars>>

Tick ==
    /\ TaskMayRun
    /\ now < MaxTime
    /\ now' = now + 1
    /\ lastCall' = Call("tick", "", NoError)
    /\ UNCHANGED <<sessionIsActive, sessionData, resolvedAccount, resolutionGuard, storage,
                   options, notifyStream, persistedSession, microtasks, lookups, inflight,
                   conduitVars, detectorVars>>

(***************************************************************************)
(* The session detector (AlSessionDetector, src/unnamed/part_005)          *)
(***************************************************************************)
NoPromise == 0

\* the second segment of a token: how many '-' and '_' characters it has, whether it is
\* base64 once these are translated to '+' and '/', and what the decoded text is to
\* JSON.parse: no JSON ("notJson"), a JSON value that is no object ("null", "number"), or
\* an object ("object"), with or without a property exp
Segment(dashes, underscores, base64, text, hasExp, exp) ==
    [dashes |-> dashes, underscores |-> underscores, base64 |-> base64, text |-> text,
     hasExp |-> hasExp, exp |-> exp]

NoSegment == Segment(0, 0, FALSE, "notJson", FALSE, 0)

\* a token as getTokenExpiration reads it: the number of segments that token.split('.')
\* yields, and the second of them
Jwt(token) ==
    IF token = "t2"
    THEN [segments |-> 3, claims |-> Segment(0, 0, TRUE, "object", TRUE, MaxTime + 1)]
    ELSE [segments |-> 1, claims |-> NoSegment]

\* String.prototype.replace with a string as its pattern: the first occurrence is replaced
ReplaceFirst(occurrences) == IF occurrences > 0 THEN occurrences - 1 ELSE 0

\* window.atob throws on a string that is not base64
atobThrows(segment) == ~segment.base64 \/ segment.dashes > 0 \/ segment.underscores > 0

\* getTokenExpiration( token ): what it returns, whether it threw, and the warnings it
\* logged; the in operator throws a TypeError on a value that is no object
getTokenExpiration(jwt) ==
    IF jwt.segments < 2
    THEN [threw |-> FALSE, value |-> 0, console |-> 1]
    ELSE LET base64 == [jwt.claims EXCEPT !.dashes = ReplaceFirst(@),
                                          !.underscores = ReplaceFirst(@)]
         IN  IF atobThrows(base64) \/ base64.text = "notJson"
             THEN [threw |-> FALSE, value |-> 0, console |-> 1]
             ELSE IF base64.text # "object"
             THEN [threw |-> TRUE, value |-> 0, console |-> 0]
             ELSE IF ~base64.hasExp
             THEN [threw |-> FALSE, value |-> 0, console |-> 1]
             ELSE [threw |-> FALSE, value |-> base64.exp, console |-> 0]

\* a property of this type is truthy (the strings and numbers of the model's mistyped
\* properties are empty and zero)
Truthy(tag) == tag = "object"

\* normalizeSessionDescriptor up to AIMSClient.getTokenInfo: the session with its
\* token_expiration filled in, and whether the promise is resolved, rejected (the
\* executor threw) or waits for the token's introspection
normalizeSessionDescriptor(session) ==
    IF ~session.authPresent \/ session.authentication.typ["token"] # "string"
    THEN [session |-> session, state |-> "rejected"]
    ELSE LET fill == session.authentication.typ["token_expiration"] \in {"undefined", "null"}
             expiration == getTokenExpiration(Jwt(session.authentication.token))
             s1 == IF fill
                   THEN [session EXCEPT
                            !.authentication.typ["token_expiration"] = "number",
                            !.authentication.token_expiration = expiration.value]
                   ELSE session
         IN  IF fill /\ expiration.threw
             THEN [session |-> session, state |-> "rejected"]
             ELSE IF /\ Truthy(s1.authentication.typ["user"])
                     /\ Truthy(s1.authentication.typ["account"])
             THEN [session |-> s1, state |-> "resolved"]
             ELSE [session |-> s1, state |-> "getTokenInfo"]

\* the resolution handler of AIMSClient.getTokenInfo in normalizeSessionDescriptor
onTokenInfo(session, tokenInfo) ==
    LET s1 == IF tokenInfo.typ["user"] = "object"
              THEN [session EXCEPT !.authentication.typ["user"] = "object",
                                   !.authentication.user = tokenInfo.user]
              ELSE session
        s2 == IF tokenInfo.typ["account"] = "object"
              THEN [s1 EXCEPT !.authentication.typ["account"] = "object",
                              !.authentication.account = tokenInfo.account]
              ELSE s1
    IN  IF tokenInfo.typ["token_expiration"] = "number" /\ tokenInfo.token_expiration # 0
        THEN [s2 EXCEPT !.authentication.typ["token_expiration"] = "number",
                        !.authentication.token_expiration = tokenInfo.token_expiration]
        ELSE s2

\* the detector's state
D == [detectionPromise |-> detectionPromise, promises |-> promises,
      authenticated |-> authenticated, cycle |-> cycle, requested |-> requested]

\* the cycle waits for nothing
Idle == [stage |-> "idle", promise |-> NoPromise, via |-> "", session |-> NoProposal]
Awaiting(stage, promise, via, session) ==
    [stage |-> stage, promise |-> promise, via |-> via, session |-> session]

\* resolve( value ) of the promise: a promise that is settled stays as it is
Resolve(d, promise, value) ==
    IF d.promises[promise] = "pending"
    THEN [d EXCEPT !.promises[promise] = value]
    ELSE d

onDetectionFail(d, promise) ==
    Resolve([d EXCEPT !.authenticated = FALSE,
                      !.detectionPromise = NoPromise,
                      !.cycle = Idle], promise, "false")

onDetectionSuccess(d, promise) ==
    Resolve([d EXCEPT !.authenticated = TRUE,
                      !.detectionPromise = NoPromise,
                      !.cycle = Idle], promise, "true")

\* a request leaves the detector
Requesting(d, what) == [d EXCEPT !.requested = Append(@, what)]

\* the try and catch blocks of ingestExistingSession: r is what setAuthentication did
\* and thrown the error its call threw
Ingested(d, r, thrown) ==
    IF thrown = NoError
    THEN [s |-> r.s, d |-> [d EXCEPT !.authenticated = r.s.sessionIsActive],
          error |-> NoError, rejection |-> r.error]
    ELSE [s |-> r.s, d |-> [d EXCEPT !.authenticated = FALSE],
          error |-> thrown, rejection |-> r.error]

\* ingestExistingSession behind its await of normalizeSessionDescriptor.  The method calls
\* ALSession.setAuthentication without awaiting it: setAuthentication is an async method,
\* so its failure is the rejection of the promise it returns and the call throws nothing
ingestExistingSession(s, d, session) ==
    Ingested(d, setAuthentication(s, session, NoOptions), NoError)

\* the handlers detectSession attaches to ingestExistingSession: of a session of the
\* conduit (a failure deletes the conduit's session first) and of an auth0 session
onIngestionSettled(d, r) ==
    IF r.error = NoError
    THEN [s |-> r.s, d |-> onDetectionSuccess(r.d, d.cycle.promise)]
    ELSE IF d.cycle.via = "conduit"
    THEN [s |-> r.s,
          d |-> Requesting([r.d EXCEPT !.cycle.stage = "deleteSession"], "deleteSession")]
    ELSE [s |-> r.s, d |-> onDetectionFail(r.d, d.cycle.promise)]

onIngested(s, d, session) == onIngestionSettled(d, ingestExistingSession(s, d, session))

\* ingestExistingSession fails before it reaches setAuthentication
onIngestionFailed(d) ==
    IF d.cycle.via = "conduit"
    THEN Requesting([d EXCEPT !.cycle.stage = "deleteSession"], "deleteSession")
    ELSE onDetectionFail(d, d.cycle.promise)

\* ingestExistingSession( session ) with the handlers detectSession attaches to it
ingest(s, d, session) ==
    LET n == normalizeSessionDescriptor(session)
    IN  IF n.state = "rejected"
        THEN [s |-> s, d |-> onIngestionFailed(d)]
        ELSE IF n.state = "resolved"
        THEN onIngested(s, d, n.session)
        ELSE [s |-> s,
              d |-> Requesting([d EXCEPT !.cycle.stage = "getTokenInfo",
                                         !.cycle.session = n.session], "getTokenInfo")]

\* detectSession without the check of ALSession.isActive()
detectSessionUnchecked(s, d) ==
    IF d.detectionPromise # NoPromise
    THEN [d |-> d, returned |-> d.detectionPromise]
    ELSE LET promise == Len(d.promises) + 1
             d1 == [d EXCEPT !.promises = Append(@, "pending")]
             d2 == Requesting([d1 EXCEPT !.cycle =
                                  Awaiting("getSession", promise, "conduit", NoProposal)],
                              "getSession")
         IN  [d |-> [d2 EXCEPT !.detectionPromise = promise], returned |-> promise]

\* detectSession(): the promise it returns.  The executor of the new promise runs before
\* the promise is assigned to detectionPromise
detectSession(s, d) ==
    IF d.detectionPromise # NoPromise
    THEN [d |-> d, returned |-> d.detectionPromise]
    ELSE LET promise == Len(d.promises) + 1
             d1 == [d EXCEPT !.promises = Append(@, "pending")]
             d2 == IF s.sessionIsActive
                   THEN onDetectionSuccess(d1, promise)
                   ELSE Requesting([d1 EXCEPT !.cycle =
                                       Awaiting("getSession", promise, "conduit", NoProposal)],
                                   "getSession")
         IN  [d |-> [d2 EXCEPT !.detectionPromise = promise], returned |-> promise]

\* the session of the auth0 branch of detectSession
Auth0Session(accessToken) ==
    [authPresent |-> TRUE,
     authentication |-> [typ |-> [token |-> "string", token_expiration |-> "null",
                                  user |-> "null", account |-> "null"],
                         token |-> accessToken, token_expiration |-> 0,
                         user |-> NoUser, account |-> NoAccount],
     hasActing |-> FALSE,
     acting |-> NoAccount,
     boundLocationId |-> NoLocation]

\* the resolution handler of conduit.getSession() in detectSession; configured: the
\* service matrix has an auth0 node and the auth0 global is installed
onSession(s, d, relayed, auth0, configured) ==
    IF relayed.present
    THEN ingest(s, d, relayed.session)
    ELSE IF auth0
    THEN IF configured
         THEN [s |-> s, d |-> Requesting([d EXCEPT !.cycle.stage = "checkSession",
                                                   !.cycle.via = "auth0"], "checkSession")]
         ELSE [s |-> s, d |-> onDetectionFail(d, d.cycle.promise)]
    ELSE [s |-> s, d |-> [d EXCEPT !.cycle.stage = "idle"]]

\* the callback of authenticator.checkSession
onCheckSession(d, error, accessToken) ==
    IF error \/ accessToken = ""
    THEN onDetectionFail(d, d.cycle.promise)
    ELSE Requesting([d EXCEPT !.cycle.stage = "userInfo",
                              !.cycle.session = Auth0Session(accessToken)], "userInfo")

\* the callback of getAuth0UserInfo; identity: what extractUserInfo finds in the
\* identity data ("ids", "noIds", or "noAudience", for which it throws)
onUserInfo(s, d, error, identity) ==
    IF error
    THEN [s |-> s, d |-> onDetectionFail(d, d.cycle.promise)]
    ELSE IF identity = "noAudience"
    THEN [s |-> s, d |-> [d EXCEPT !.cycle.stage = "idle"]]
    ELSE IF identity = "noIds"
    THEN [s |-> s, d |-> onDetectionFail(d, d.cycle.promise)]
    ELSE ingest(s, d, d.cycle.session)

(***************************************************************************)
(* The detector's inputs                                                   *)
(***************************************************************************)
\* a descriptor that carries a token and nothing else
TokenOnly(token) ==
    [authPresent |-> TRUE,
     authentication |-> [typ |-> [token |-> "string", token_expiration |-> "undefined",
                                  user |-> "undefined", account |-> "undefined"],
                         token |-> token, token_expiration |-> 0,
                         user |-> NoUser, account |-> NoAccount],
     hasActing |-> FALSE,
     acting |-> NoAccount,
     boundLocationId |-> NoLocation]

NoSession == [present |-> FALSE, session |-> NoProposal]
Relayed(session) == [present |-> TRUE, session |-> session]

\* what conduit.getSession() resolves with: nothing, a complete session, a session that
\* has expired, a session whose account lacks its name, a token, an object without
\* authentication
RelayedSessions ==
    { NoSession,
      Relayed(BaseProposal),
      Relayed(Proposal(UserU1, AccountA1, "t1", 0, FALSE, NoAccount)),
      Relayed([BaseProposal EXCEPT
                  !.authentication.account = Without(@, EmptyAccountVal, "name")]),
      Relayed(TokenOnly("t2")),
      Relayed(TokenOnly("t1")),
      Relayed(NoProposal) }

\* the tokens that getTokenExpiration is given: of one segment and more, with a second
\* segment in base64 or base64url or neither, that holds an object with or without exp,
\* another JSON value, or no JSON
Claims ==
    { Segment(0, 0, b, "notJson", FALSE, 0) : b \in BOOLEAN }
        \cup { Segment(dashes, underscores, TRUE, text, FALSE, 0) :
                 dashes \in 0..MaxOccurrences, underscores \in 0..MaxOccurrences,
                 text \in {"null", "number", "object"} }
        \cup { Segment(dashes, underscores, TRUE, "object", TRUE, exp) :
                 dashes \in 0..MaxOccurrences, underscores \in 0..MaxOccurrences,
                 exp \in {1, MaxTime + 1} }

Jwts == { [segments |-> n, claims |-> IF n < 2 THEN NoSegment ELSE claims] :
            n \in 1..MaxSegments, claims \in Claims }

\* what AIMSClient.getTokenInfo resolves with
TokenInfo(user, account, expiration) ==
    [typ |-> FullAuthTyp, token |-> "", token_expiration |-> expiration,
     user |-> user, account |-> account]

TokenInfos ==
    { TokenInfo(UserU1, AccountA1, MaxTime + 1),
      TokenInfo(UserU1, AccountA1, 0),
      TokenInfo(UserU1, Without(AccountA1, EmptyAccountVal, "name"), MaxTime + 1) }

\* the access tokens authenticator.checkSession answers with ("": none)
AccessTokens == {"", "t1", "t2"}
Identities == {"ids", "noIds", "noAudience"}

(***************************************************************************)
(* The detector as a state machine                                         *)
(***************************************************************************)
ApplyDetector(d) ==
    /\ Len(d.promises) <= MaxCycles
    /\ detectionPromise' = d.detectionPromise
    /\ promises' = d.promises
    /\ authenticated' = d.authenticated
    /\ cycle' = d.cycle
    /\ requested' = d.requested

\* new AlSessionDetector( conduit, useAuth0 )
Detector(auth0) ==
    /\ detectionPromise = NoPromise
    /\ promises = <<>>
    /\ authenticated = FALSE
    /\ useAuth0 = auth0
    /\ cycle = Idle
    /\ requested = <<>>

DetectorStatic == Detector(TRUE)

\* the session's and the detector's states become the next state
ApplyBoth(r) == Apply(r.s) /\ ApplyDetector(r.d)

DetectSession ==
    /\ LET r == detectSession(S, D)
       IN  ApplyDetector(r.d)
    /\ lastCall' = Call("detectSession", "", NoError)
    /\ UNCHANGED <<now, sessionIsActive, sessionData, resolvedAccount, resolutionGuard,
                   storage, options, notifyStream, persistedSession, microtasks, lookups,
                   inflight, conduitVars, useAuth0>>

\* conduit.getSession() resolves
GetSessionReturn(relayed, configured) ==
    /\ TaskMayRun
    /\ cycle.stage = "getSession"
    /\ ApplyBoth(onSession(S, D, relayed, useAuth0, configured))
    /\ lastCall' = Call("getSessionReturn", "", NoError)
    /\ UNCHANGED <<now, options, persistedSession, conduitVars, useAuth0>>

\* conduit.deleteSession() resolves
DeleteSessionReturn ==
    /\ TaskMayRun
    /\ cycle.stage = "deleteSession"
    /\ ApplyDetector(onDetectionFail(D, cycle.promise))
    /\ lastCall' = Call("deleteSessionReturn", "", NoError)
    /\ UNCHANGED <<now, sessionIsActive, sessionData, resolvedAccount, resolutionGuard,
                   storage, options, notifyStream, persistedSession, microtasks, lookups,
                   inflight, conduitVars, useAuth0>>

\* AIMSClient.getTokenInfo resolves
TokenInfoReturn(tokenInfo) ==
    /\ TaskMayRun
    /\ cycle.stage = "getTokenInfo"
    /\ ApplyBoth(onIngested(S, D, onTokenInfo(cycle.session, tokenInfo)))
    /\ lastCall' = Call("tokenInfoReturn", "", NoError)
    /\ UNCHANGED <<now, options, persistedSession, conduitVars, useAuth0>>

\* AIMSClient.getTokenInfo rejects
TokenInfoFail ==
    /\ TaskMayRun
    /\ cycle.stage = "getTokenInfo"
    /\ ApplyDetector(onIngestionFailed(D))
    /\ lastCall' = Call("tokenInfoFail", "", "request")
    /\ UNCHANGED <<now, sessionIsActive, sessionData, resolvedAccount, resolutionGuard,
                   storage, options, notifyStream, persistedSession, microtasks, lookups,
                   inflight, conduitVars, useAuth0>>

\* authenticator.checkSession calls back
CheckSessionReturn(error, accessToken) ==
    /\ TaskMayRun
    /\ cycle.stage = "checkSession"
    /\ ApplyDetector(onCheckSession(D, error, accessToken))
    /\ lastCall' = Call("checkSessionReturn", "", IF error THEN "request" ELSE NoError)
    /\ UNCHANGED <<now, sessionIsActive, sessionData, resolvedAccount, resolutionGuard,
                   storage, options, notifyStream, persistedSession, microtasks, lookups,
                   inflight, conduitVars, useAuth0>>

\* authenticator.client.userInfo calls back
UserInfoReturn(error, identity) ==
    /\ TaskMayRun
    /\ cycle.stage = "userInfo"
    /\ ApplyBoth(onUserInfo(S, D, error, identity))
    /\ lastCall' = Call("userInfoReturn", "", IF error THEN "request" ELSE NoError)
    /\ UNCHANGED <<now, options, persistedSession, conduitVars, useAuth0>>

(***************************************************************************)
(* Authentication through the identity backend                             *)
(***************************************************************************)
\* the resolution handler of client.authenticate in authenticate: setAuthentication is
\* called and not awaited, then the promise is resolved with true; rejection is the
\* rejection of the promise setAuthentication returns, which nothing observes
authenticate(s, session, opts) ==
    LET r == setAuthentication(s, session, opts)
    IN  [s |-> r.s, resolved |-> TRUE, rejection |-> r.error]

\* the resolution handler of client.authenticateWithMFASessionToken
authenticateWithSessionToken(s, session, opts) ==
    LET r == setAuthentication(s, session, opts)
    IN  [s |-> r.s, resolved |-> TRUE, rejection |-> r.error]

\* the resolution handler of AIMSClient.getTokenInfo in authenticateWithAccessToken
authenticateWithAccessToken(s, accessToken, tokenInfo, opts) ==
    LET session == [authPresent |-> TRUE,
                    authentication |->
                        [typ |-> [tokenInfo.typ EXCEPT !["token"] = "string"],
                         token |-> accessToken,
                         token_expiration |-> tokenInfo.token_expiration,
                         user |-> tokenInfo.user,
                         account |-> tokenInfo.account],
                    hasActing |-> FALSE,
                    acting |-> NoAccount,
                    boundLocationId |-> NoLocation]
        r == setAuthentication(s, session, opts)
    IN  [s |-> r.s, resolved |-> TRUE, rejection |-> r.error]

\* the descriptors the identity backend answers authenticate with: a valid one, one
\* that has expired, one whose account lacks its name
BackendSessions ==
    { BaseProposal,
      Proposal(UserU2, AccountA2, "t2", 0, FALSE, NoAccount),
      [Proposal(UserU2, AccountA2, "t2", MaxTime + 1, FALSE, NoAccount) EXCEPT
          !.authentication.account = Without(@, EmptyAccountVal, "name")] }

\* the backend answers authenticate( username, passphrase )
Authenticate(session) ==
    /\ TaskMayRun
    /\ LET r == authenticate(S, session, NoOptions)
       IN  /\ Apply(r.s)
           /\ lastCall' = Call("authenticate", session.authentication.token, r.rejection)
    /\ UNCHANGED <<now, options, persistedSession, conduitVars, detectorVars>>

\* the backend answers authenticateWithSessionToken( sessionToken, mfaCode )
AuthenticateWithSessionToken(session) ==
    /\ TaskMayRun
    /\ LET r == authenticateWithSessionToken(S, session, NoOptions)
       IN  /\ Apply(r.s)
           /\ lastCall' = Call("authenticateWithSessionToken", session.authentication.token,
                               r.rejection)
    /\ UNCHANGED <<now, options, persistedSession, conduitVars, detectorVars>>

\* the backend answers the getTokenInfo of authenticateWithAccessToken( accessToken )
AuthenticateWithAccessToken(accessToken, tokenInfo) ==
    /\ TaskMayRun
    /\ LET r == authenticateWithAccessToken(S, accessToken, tokenInfo, NoOptions)
       IN  /\ Apply(r.s)
           /\ lastCall' = Call("authenticateWithAccessToken", accessToken, r.rejection)
    /\ UNCHANGED <<now, options, persistedSession, conduitVars, detectorVars>>

\* the backend fails one of the three: the promise is rejected, nothing changes
AuthenticateFail ==
    /\ TaskMayRun
    /\ lastCall' = Call("authenticateFail", "", "request")
    /\ UNCHANGED <<now, sessionIsActive, sessionData, resolvedAccount, resolutionGuard,
                   storage, options, notifyStream, persistedSession, microtasks, lookups,
                   inflight, conduitVars, detectorVars>>

Authenticating ==
    \/ \E session \in BackendSessions : Authenticate(session)
    \/ \E session \in BackendSessions : AuthenticateWithSessionToken(session)
    \/ \E tokenInfo \in TokenInfos : AuthenticateWithAccessToken("t2", tokenInfo)
    \/ AuthenticateFail

(***************************************************************************)
(* The conduit client: messages and origins                                *)
(***************************************************************************)
NoWindow == ""
NoOrigin == ""

AccountsOrigin == "https://console.account.alertlogic.com"
LegacyOrigin == "https://console.clouddefender.alertlogic.com"
OverviewOrigin == "https://console.overview.alertlogic.com"
ForeignOrigin == "https://www.google.com"

\* AlLocatorService.getNodeByURI( origin ).locTypeId, "" when the locator knows no node
getNodeByURI(origin) ==
    IF origin = AccountsOrigin THEN "AccountsUI"
    ELSE IF origin = LegacyOrigin THEN "LegacyUI"
    ELSE IF origin = OverviewOrigin THEN "OverviewUI"
    ELSE ""

originWhitelist == {"AccountsUI", "LegacyUI"}

\* the origin that the last handshake came from, as the origin to post to
TargetOriginOfHandshake == conduitOrigin

\* AlLocatorService.resolveURL( AlLocation.AccountsUI, null, { residency: 'US' } )
TargetOrigin == AccountsOrigin

ReplyTypes == {"conduit.getSession", "conduit.setSession", "conduit.deleteSession",
               "conduit.getGlobalSetting", "conduit.setGlobalSetting",
               "conduit.deleteGlobalSetting", "conduit.getGlobalResource"}

\* a message event: hasData, typeIsString and requestIdIsString tell whether event.data is
\* there and whether its type and requestId are strings; origin and source are "" when
\* the event has none; locationId is "" when event.data.locationId is not a string;
\* requestId 0 is an ID that no request of this page carries; session is
\* event.data.session ("undefined" when the data has no such field, "null" when the
\* conduit holds no session, else the name of the session it holds); resource and error
\* are event.data.resource and event.data.error ("undefined" when the data has no such
\* field)
Message(type, requestId, origin, source, locationId) ==
    [hasData |-> TRUE, typeIsString |-> TRUE, type |-> type,
     requestIdIsString |-> TRUE, requestId |-> requestId,
     origin |-> origin, source |-> source, locationId |-> locationId,
     session |-> "undefined", resource |-> "undefined", error |-> "undefined"]

\* event.data, as far as the callers of request read it
Data(event) ==
    [type |-> event.type, requestId |-> event.requestId, session |-> event.session,
     resource |-> event.resource, error |-> event.error]

\* the Error that the timeout of a request rejects with
TimeoutError ==
    [type |-> "Error", requestId |-> 0, session |-> "undefined",
     resource |-> "undefined", error |-> "undefined"]

(***************************************************************************)
(* The conduit client's operations, as functions of its static state c     *)
(***************************************************************************)
\* console and dispatched are what the operation under way has logged with console.warn
\* and the handlers that onReceiveMessage has dispatched to; threw tells whether it threw
C == [refCount |-> refCount, document |-> document, frames |-> frames,
      listeners |-> listeners, conduitWindow |-> conduitWindow,
      conduitOrigin |-> conduitOrigin, ready |-> ready, requests |-> requests,
      externalSessions |-> externalSessions, requestIndex |-> requestIndex,
      issued |-> issued, waiting |-> waiting, timers |-> timers,
      readinessTimers |-> readinessTimers, posted |-> posted,
      console |-> 0, dispatched |-> <<>>, threw |-> FALSE]

Warn(c) == [c EXCEPT !.console = @ + 1]

\* render(): the listener of this client is registered and the container built
render(c, client) == [c EXCEPT !.listeners = @ \cup {client}]

\* start( targetDocument )
start(c, client, targetDocument) ==
    LET c1 == IF c.refCount < 1
              THEN LET d == [c EXCEPT !.document = targetDocument]
                       r == IF targetDocument = "body"
                            THEN [render(d, client) EXCEPT !.frames = @ + 1]
                            ELSE d
                   IN  [r EXCEPT !.readinessTimers = @ + 1]
              ELSE c
    IN  [c1 EXCEPT !.refCount = @ + 1]

\* stop()
stop(c) ==
    LET c1 == IF c.refCount > 0 THEN [c EXCEPT !.refCount = @ - 1] ELSE c
    IN  IF c1.refCount = 0 /\ c1.document # "" /\ c1.frames > 0
        THEN [c1 EXCEPT !.frames = @ - 1]
        ELSE c1

\* awaitExternalSession( insightLocationId )
awaitExternalSession(c, locationId) ==
    IF c.externalSessions[locationId] = "absent"
    THEN [c EXCEPT !.externalSessions[locationId] = "awaited"]
    ELSE c

onConduitReady(c, event) ==
    [c EXCEPT !.conduitWindow = event.source,
              !.conduitOrigin = event.origin,
              !.ready = TRUE]

\* the resolve and reject functions of a request's promise: what they are called with is
\* recorded in order, and the first call settles the promise
Settle(c, requestId, how, value) ==
    [c EXCEPT !.issued[requestId].settled = Append(@, how),
              !.issued[requestId].values = Append(@, value)]

\* onDispatchReply that forgets every pending request once one of them is answered
onDispatchReplyClearing(c, event) ==
    IF event.requestId \notin c.requests
    THEN Warn(c)
    ELSE [Settle(c, event.requestId, "resolve", Data(event)) EXCEPT !.requests = {}]

\* onDispatchReply that leaves the entry of the request in place
onDispatchReplyKeepEntry(c, event) ==
    IF event.requestId \notin c.requests
    THEN Warn(c)
    ELSE Settle(c, event.requestId, "resolve", Data(event))

onDispatchReply(c, event) ==
    IF event.requestId \notin c.requests
    THEN Warn(c)
    ELSE [Settle(c, event.requestId, "resolve", Data(event))
              EXCEPT !.requests = @ \ {event.requestId}]

\* onExternalSessionEstablished: an entry that an earlier notification created has no
\* resolver, and calling it throws
onExternalSessionEstablished(c, event) ==
    IF event.locationId = ""
    THEN c
    ELSE IF c.externalSessions[event.locationId] = "absent"
    THEN [c EXCEPT !.externalSessions[event.locationId] = "established"]
    ELSE IF c.externalSessions[event.locationId] = "established"
    THEN [c EXCEPT !.threw = TRUE]
    ELSE [c EXCEPT !.externalSessions[event.locationId] = "resolved"]

Dispatch(c, handler) == [c EXCEPT !.dispatched = Append(@, handler)]

\* onReceiveMessage that dispatches the messages of any origin
onReceiveMessageAnyOrigin(c, event) ==
    IF \/ ~event.hasData
       \/ ~event.typeIsString
       \/ ~event.requestIdIsString
       \/ event.origin = NoOrigin
       \/ event.source = NoWindow
    THEN c
    ELSE IF event.type = "conduit.ready"
    THEN onConduitReady(Dispatch(c, "onConduitReady"), event)
    ELSE IF event.type \in ReplyTypes
    THEN onDispatchReply(Dispatch(c, "onDispatchReply"), event)
    ELSE IF event.type = "conduit.externalSessionReady"
    THEN onExternalSessionEstablished(Dispatch(c, "onExternalSessionEstablished"), event)
    ELSE Warn(c)

onReceiveMessage(c, event) ==
    IF \/ ~event.hasData
       \/ ~event.typeIsString
       \/ ~event.requestIdIsString
       \/ event.origin = NoOrigin
       \/ event.source = NoWindow
    THEN c
    ELSE IF getNodeByURI(event.origin) \notin originWhitelist
    THEN c
    ELSE IF event.type = "conduit.ready"
    THEN onConduitReady(Dispatch(c, "onConduitReady"), event)
    ELSE IF event.type \in ReplyTypes
    THEN onDispatchReply(Dispatch(c, "onDispatchReply"), event)
    ELSE IF event.type = "conduit.externalSessionReady"
    THEN onExternalSessionEstablished(Dispatch(c, "onExternalSessionEstablished"), event)
    ELSE Warn(c)

validateReadiness(c) ==
    IF c.conduitWindow = NoWindow /\ c.conduitOrigin = NoOrigin THEN Warn(c) ELSE c

\* request that posts at once when the conduit is ready and never otherwise
requestUnqueued(c, methodName, timeout) ==
    LET requestId == c.requestIndex + 1
        c1 == [c EXCEPT !.requestIndex = requestId,
                        !.issued = Append(@, [type |-> methodName, timeout |-> timeout,
                                              beforeReady |-> ~c.ready, settled |-> <<>>,
                                              values |-> <<>>]),
                        !.requests = @ \cup {requestId}]
        c2 == IF c.ready THEN [c1 EXCEPT !.waiting = Append(@, requestId)] ELSE c1
    IN  IF timeout > 0 THEN [c2 EXCEPT !.timers = @ \cup {requestId}] ELSE c2

\* request that arms no timer
requestUntimed(c, methodName, timeout) ==
    LET requestId == c.requestIndex + 1
    IN  [c EXCEPT !.requestIndex = requestId,
                  !.issued = Append(@, [type |-> methodName, timeout |-> timeout,
                                        beforeReady |-> ~c.ready, settled |-> <<>>,
                                        values |-> <<>>]),
                  !.requests = @ \cup {requestId},
                  !.waiting = Append(@, requestId)]

\* request( methodName, data, timeout ), up to the callback on ready; beforeReady records
\* that the conduit was not ready when the request was issued
request(c, methodName, timeout) ==
    LET requestId == c.requestIndex + 1
        c1 == [c EXCEPT !.requestIndex = requestId,
                        !.issued = Append(@, [type |-> methodName, timeout |-> timeout,
                                              beforeReady |-> ~c.ready, settled |-> <<>>,
                                              values |-> <<>>]),
                        !.requests = @ \cup {requestId},
                        !.waiting = Append(@, requestId)]
    IN  IF timeout > 0 THEN [c1 EXCEPT !.timers = @ \cup {requestId}] ELSE c1

\* the callback of request on ready: the message is posted
postRequest(c, requestId) ==
    [c EXCEPT !.posted = Append(@, [type |-> c.issued[requestId].type,
                                    requestId |-> requestId,
                                    window |-> c.conduitWindow,
                                    targetOrigin |-> TargetOrigin])]

\* the timeout of a request that leaves the entry of the request in place
onTimeoutKeepEntry(c, requestId) ==
    LET c1 == Warn(c)
    IN  IF requestId \in c1.requests THEN Settle(c1, requestId, "reject", TimeoutError) ELSE c1

\* the callback that request arms with AlStopwatch.once when timeout > 0
onTimeout(c, requestId) ==
    LET c1 == Warn(c)
    IN  IF requestId \in c1.requests
        THEN [Settle(c1, requestId, "reject", TimeoutError) EXCEPT !.requests = @ \ {requestId}]
        ELSE c1

\* getSession(): the request it issues, and what its promise settles with once the
\* promise of the request has settled
getSession(c) == request(c, "conduit.getSession", 0)

getSessionDropped(rawResponse) == "undefined"

getSessionResponse(rawResponse) == rawResponse.session

Pending == [state |-> "pending", value |-> "undefined"]

getSessionPromise(c, requestId) ==
    LET r == c.issued[requestId]
    IN  IF r.settled = <<>> THEN Pending
        ELSE IF r.settled[1] = "resolve"
        THEN [state |-> "resolved", value |-> getSessionResponse(r.values[1])]
        ELSE [state |-> "rejected", value |-> r.values[1].type]

\* getGlobalResource( resourceName, ttl ): the request it issues, with a timeout of 5
\* seconds, and what its promise settles with once the promise of the request has settled
getGlobalResource(c) == request(c, "conduit.getGlobalResource", 5)

FailedToRetrieve == "AlConduitClient failed to retrieve global resource"

getGlobalResourceResponse(response) ==
    IF response.resource = "undefined"
    THEN [state |-> "rejected",
          value |-> IF response.error # "undefined" THEN response.error
                    ELSE FailedToRetrieve]
    ELSE [state |-> "resolved", value |-> response.resource]

getGlobalResourcePromise(c, requestId) ==
    LET r == c.issued[requestId]
    IN  IF r.settled = <<>> THEN Pending
        ELSE IF r.settled[1] = "resolve" THEN getGlobalResourceResponse(r.values[1])
        ELSE [state |-> "rejected", value |-> r.values[1].type]

(***************************************************************************)
(* Inputs of the conduit client                                            *)
(***************************************************************************)
\* the client that starts the conduit, and the document it starts it in
Clients == {"c1"}
TargetDocuments == {"body"}
\* the operations the page requests, with the timeout they pass to request
Operations == { <<"conduit.getSession", 0>>, <<"conduit.getGlobalResource", 5>> }
RequestIds == 0..MaxRequests
AwaitedLocations == {"L1"}

ReadyMessages ==
    { Message("conduit.ready", 0, AccountsOrigin, "w1", ""),
      Message("conduit.ready", 0, LegacyOrigin, "w2", "") }
ReplyMessages ==
    { Message("conduit.getSession", id, AccountsOrigin, "w1", "") : id \in RequestIds }
ExternalSessionMessages ==
    { Message("conduit.externalSessionReady", 0, AccountsOrigin, "w1", l) :
        l \in AwaitedLocations \cup {""} }
UnrecognizedMessages == { Message("conduit.notARealMethod", 0, AccountsOrigin, "w1", "") }

AcceptedMessages ==
    ReadyMessages \cup ReplyMessages \cup ExternalSessionMessages \cup UnrecognizedMessages

\* m without data, without a string type, without a string requestId, without an origin,
\* without a source, and from an origin that is not on the allow-list
Defective(m) ==
    { [m EXCEPT !.hasData = FALSE, !.typeIsString = FALSE, !.type = "",
                !.requestIdIsString = FALSE, !.requestId = 0],
      [m EXCEPT !.typeIsString = FALSE, !.type = ""],
      [m EXCEPT !.requestIdIsString = FALSE, !.requestId = 0],
      [m EXCEPT !.origin = NoOrigin],
      [m EXCEPT !.source = NoWindow],
      [m EXCEPT !.origin = ForeignOrigin],
      [m EXCEPT !.origin = OverviewOrigin] }

DefectiveMessages == UNION { Defective(m) : m \in AcceptedMessages }

\* the defective messages that the window receives
IgnoredMessages ==
    UNION { Defective(m) : m \in { Message("conduit.ready", 0, AccountsOrigin, "w2", ""),
                                   Message("conduit.getSession", 1, AccountsOrigin, "w1", "") } }

Messages == AcceptedMessages \cup IgnoredMessages

\* the replies of the conduit to getSession: the session it holds, or null
HeldSessions == {"null", "s1"}
SessionReplies ==
    { [Message("conduit.getSession", id, AccountsOrigin, "w1", "") EXCEPT !.session = held] :
        id \in RequestIds, held \in HeldSessions }

\* the replies of the conduit to getGlobalResource: the resource, an error, or neither
ResourceOutcomes == { <<"r1", "undefined">>, <<"undefined", "e1">>, <<"undefined", "undefined">> }
ResourceReplies ==
    { [Message("conduit.getGlobalResource", id, LegacyOrigin, "w2", "")
           EXCEPT !.resource = o[1], !.error = o[2]] :
        id \in 1..MaxRequests, o \in ResourceOutcomes }

RelayMessages ==
    ReadyMessages \cup SessionReplies \cup ResourceReplies
        \cup Defective(Message("conduit.getSession", 1, AccountsOrigin, "w1", ""))

(***************************************************************************)
(* The conduit client as a state machine                                   *)
(***************************************************************************)
\* what produced this state: a call of the page ("call", or "start" and "stop" where the
\* lifecycle is followed), the callback of a request on
\* ready ("post"), a message, or a timer; the request it is about (for a message that
\* was dispatched, the requestId it carries), whether the message is one of
\* IgnoredMessages, and what the step logged, dispatched to and threw
ConduitCall(op, requestId, ignored, c) ==
    [op |-> op, requestId |-> requestId, ignored |-> ignored,
     console |-> c.console, dispatched |-> c.dispatched, threw |-> c.threw]

ApplyConduit(c) ==
    /\ refCount' = c.refCount
    /\ document' = c.document
    /\ frames' = c.frames
    /\ listeners' = c.listeners
    /\ conduitWindow' = c.conduitWindow
    /\ conduitOrigin' = c.conduitOrigin
    /\ ready' = c.ready
    /\ requests' = c.requests
    /\ externalSessions' = c.externalSessions
    /\ requestIndex' = c.requestIndex
    /\ issued' = c.issued
    /\ waiting' = c.waiting
    /\ timers' = c.timers
    /\ readinessTimers' = c.readinessTimers
    /\ posted' = c.posted

ConduitStatic ==
    /\ refCount = 0
    /\ document = ""
    /\ frames = 0
    /\ listeners = {}
    /\ conduitWindow = NoWindow
    /\ conduitOrigin = NoOrigin
    /\ ready = FALSE
    /\ requests = {}
    /\ externalSessions = [l \in Locations |-> "absent"]
    /\ requestIndex = 0
    /\ issued = <<>>
    /\ waiting = <<>>
    /\ timers = {}
    /\ readinessTimers = 0
    /\ posted = <<>>
    /\ conduitCall = ConduitCall("static", 0, FALSE, C)

Start(client, targetDocument) ==
    /\ refCount < MaxStarts
    /\ readinessTimers < MaxStarts
    /\ LET c == start(C, client, targetDocument)
       IN  ApplyConduit(c) /\ conduitCall' = ConduitCall("call", 0, FALSE, c)
    /\ UNCHANGED <<sessionVars, detectorVars>>

Stop ==
    /\ LET c == stop(C)
       IN  ApplyConduit(c) /\ conduitCall' = ConduitCall("call", 0, FALSE, c)
    /\ UNCHANGED <<sessionVars, detectorVars>>

AwaitExternalSession(locationId) ==
    /\ LET c == awaitExternalSession(C, locationId)
       IN  /\ ApplyConduit(c)
           /\ conduitCall' = ConduitCall("call", 0, FALSE, c)
    /\ UNCHANGED <<sessionVars, detectorVars>>

Request(methodName, timeout) ==
    /\ requestIndex < MaxRequests
    /\ LET c == request(C, methodName, timeout)
       IN  /\ ApplyConduit(c)
           /\ conduitCall' = ConduitCall("call", 0, FALSE, c)
    /\ UNCHANGED <<sessionVars, detectorVars>>

\* the callback on ready at the head of the microtask queue runs
PostRequest ==
    /\ ready
    /\ waiting # <<>>
    /\ LET c == postRequest([C EXCEPT !.waiting = Tail(@)], Head(waiting))
       IN  /\ ApplyConduit(c)
           /\ conduitCall' = ConduitCall("post", Head(waiting), FALSE, c)
    /\ UNCHANGED <<sessionVars, detectorVars>>

\* a task of the event loop runs once no callback on ready is due
ConduitTaskMayRun == ~ready \/ waiting = <<>>

\* event is handled by the listener of every client that has rendered
RECURSIVE Listen(_, _, _)
Listen(c, event, n) == IF n = 0 THEN c ELSE Listen(onReceiveMessage(c, event), event, n - 1)

ReceiveMessage(event) ==
    /\ ConduitTaskMayRun
    /\ listeners # {}
    /\ LET c == Listen(C, event, Cardinality(listeners))
       IN  /\ ApplyConduit(c)
           /\ conduitCall' = ConduitCall("message",
                                         IF c.dispatched = <<>> THEN 0 ELSE event.requestId,
                                         event \in IgnoredMessages, c)
    /\ UNCHANGED <<sessionVars, detectorVars>>

Timeout(requestId) ==
    /\ ConduitTaskMayRun
    /\ requestId \in timers
    /\ LET c == onTimeout([C EXCEPT !.timers = @ \ {requestId}], requestId)
       IN  ApplyConduit(c) /\ conduitCall' = ConduitCall("timeout", requestId, FALSE, c)
    /\ UNCHANGED <<sessionVars, detectorVars>>

ValidateReadiness ==
    /\ ConduitTaskMayRun
    /\ readinessTimers > 0
    /\ LET c == validateReadiness([C EXCEPT !.readinessTimers = @ - 1])
       IN  /\ ApplyConduit(c)
           /\ conduitCall' = ConduitCall("validateReadiness", 0, FALSE, c)
    /\ UNCHANGED <<sessionVars, detectorVars>>

ConduitInit == Constructed(EmptyStorage) /\ ConduitStatic /\ DetectorStatic

ConduitNext ==
    \/ \E client \in Clients, targetDocument \in TargetDocuments :
           Start(client, targetDocument)
    \/ Stop
    \/ \E locationId \in AwaitedLocations : AwaitExternalSession(locationId)
    \/ \E op \in Operations : Request(op[1], op[2])
    \/ PostRequest
    \/ \E event \in Messages : ReceiveMessage(event)
    \/ \E requestId \in 1..MaxRequests : Timeout(requestId)
    \/ ValidateReadiness

ConduitSpec == ConduitInit /\ [][ConduitNext]_vars

(***************************************************************************)
(* The conduit client and a conduit that answers getSession                *)
(***************************************************************************)
GetSession ==
    /\ requestIndex < MaxRequests
    /\ LET c == getSession(C)
       IN  /\ ApplyConduit(c)
           /\ conduitCall' = ConduitCall("call", 0, FALSE, c)
    /\ UNCHANGED <<sessionVars, detectorVars>>

RelayNext ==
    \/ \E client \in Clients, targetDocument \in TargetDocuments :
           Start(client, targetDocument)
    \/ GetSession
    \/ Request("conduit.getGlobalResource", 5)
    \/ PostRequest
    \/ \E event \in RelayMessages : ReceiveMessage(event)
    \/ \E requestId \in 1..MaxRequests : Timeout(requestId)

RelaySpec == ConduitInit /\ [][RelayNext]_vars

(***************************************************************************)
(* The conduit client and a conduit that may or may not answer             *)
(* getGlobalResource: the callbacks on ready and the timers that were      *)
(* armed run in the end, messages need not arrive                          *)
(***************************************************************************)
GetGlobalResource ==
    /\ requestIndex < MaxRequests
    /\ LET c == getGlobalResource(C)
       IN  /\ ApplyConduit(c)
           /\ conduitCall' = ConduitCall("call", 0, FALSE, c)
    /\ UNCHANGED <<sessionVars, detectorVars>>

ResourceMessages ==
    ReadyMessages \cup ResourceReplies
        \cup { Message("conduit.getSession", 1, AccountsOrigin, "w1", ""),
               Message("conduit.getGlobalResource", 1, ForeignOrigin, "w1", "") }

ResourceNext ==
    \/ \E client \in Clients, targetDocument \in TargetDocuments :
           Start(client, targetDocument)
    \/ GetGlobalResource
    \/ PostRequest
    \/ \E event \in ResourceMessages : ReceiveMessage(event)
    \/ \E requestId \in 1..MaxRequests : Timeout(requestId)

ResourceSpec ==
    /\ ConduitInit
    /\ [][ResourceNext]_vars
    /\ WF_vars(PostRequest)
    /\ \A requestId \in 1..MaxRequests : WF_vars(Timeout(requestId))

(***************************************************************************)
(* The conduit client's lifecycle: overlapping start and stop calls of     *)
(* several client instances on the static state                            *)
(***************************************************************************)
Instances == {"c1", "c2"}

StartInstance(client, targetDocument) ==
    /\ refCount < MaxRefs
    /\ readinessTimers < MaxRefs
    /\ LET c == start(C, client, targetDocument)
       IN  ApplyConduit(c) /\ conduitCall' = ConduitCall("start", 0, FALSE, c)
    /\ UNCHANGED <<sessionVars, detectorVars>>

StopInstance ==
    /\ LET c == stop(C)
       IN  ApplyConduit(c) /\ conduitCall' = ConduitCall("stop", 0, FALSE, c)
    /\ UNCHANGED <<sessionVars, detectorVars>>

LifecycleNext ==
    \/ \E client \in Instances, targetDocument \in TargetDocuments :
           StartInstance(client, targetDocument)
    \/ StopInstance
    \/ ValidateReadiness
    \/ \E event \in ReadyMessages : ReceiveMessage(event)

LifecycleSpec == ConduitInit /\ [][LifecycleNext]_vars

(***************************************************************************)
(* The session instance's environments                                     *)
(***************************************************************************)
Resolving ==
    \/ RunMicrotask
    \/ \E i \in 1..MaxPending : LookupReturn(i)
    \/ \E i \in 1..MaxPending : LookupFail(i)
    \/ \E i \in 1..MaxPending : ResolutionReturn(i)
    \/ \E i \in 1..MaxPending : ResolutionFail(i)

(***************************************************************************)
(* Authentication: an instance constructed over any persisted record, fed  *)
(* with session proposals while time passes                                *)
(***************************************************************************)
Init == SessionInit /\ ConduitStatic /\ DetectorStatic

Next ==
    \/ Reinstate
    \/ \E input \in AuthenticationInputs : SetAuthentication(input[1], input[2])
    \/ ActivateSession
    \/ DeactivateSession
    \/ Authenticating
    \/ Resolving
    \/ Tick

Spec == Init /\ [][Next]_vars

(***************************************************************************)
(* Acting account: an instance constructed over empty storage whose acting *)
(* account is changed while resolutions are in flight                      *)
(***************************************************************************)
ActingInit == Constructed(EmptyStorage) /\ ConduitStatic /\ DetectorStatic

ActingNext ==
    \/ SetAuthentication(BaseProposal, NoOptions)
    \/ \E account \in ActingAccounts : SetActingAccount(account)
    \/ \E id \in ActingAccountIds : SetActingAccountById(id)
    \/ \E o \in SessionOptions : SetOptions(o)
    \/ \E insightLocationId \in Locations : SetActiveDatacenter(insightLocationId)
    \/ SetTokenInfo("t2", MaxTime + 1)
    \/ DeactivateSession
    \/ Resolving

ActingSpec == ActingInit /\ [][ActingNext]_vars

(***************************************************************************)
(* Session cycles: an instance that is authenticated, has its acting       *)
(* account set and resolved and is deactivated, as many times as           *)
(* MaxEvents events allow                                                  *)
(***************************************************************************)
Established ==
    /\ LET r == setAuthentication(S, BaseProposal, NoOptions)
       IN  /\ ApplyWithin(r.s, MaxEvents)
           /\ lastCall' = Call("setAuthentication", "", r.error)
    /\ UNCHANGED <<now, options, persistedSession, conduitVars, detectorVars>>

ActingAccountSet(account) ==
    /\ ApplyWithin(setActingAccount(S, account, "none"), MaxEvents)
    /\ lastCall' = Call("setActingAccount", account.val.id, NoError)
    /\ UNCHANGED <<now, options, persistedSession, conduitVars, detectorVars>>

Deactivated ==
    /\ ApplyWithin(deactivateSession(S), MaxEvents)
    /\ lastCall' = Call("deactivateSession", "", NoError)
    /\ UNCHANGED <<now, options, persistedSession, conduitVars, detectorVars>>

MicrotaskRun ==
    /\ microtasks # <<>>
    /\ LET m == Head(microtasks)
           s0 == [S EXCEPT !.microtasks = Tail(@)]
       IN  ApplyWithin(IF m.kind = "persist" THEN Continue(s0, m.cont)
                       ELSE IF m.consolidated
                       THEN resolveActingAccountConsolidated(s0, m.account, m.cont)
                       ELSE resolveActingAccount(s0, m.account, m.cont),
                       MaxEvents)
    /\ lastCall' = Call("microtask", "", NoError)
    /\ UNCHANGED <<now, options, persistedSession, conduitVars, detectorVars>>

ResolutionReturned(i) ==
    /\ TaskMayRun
    /\ i \in DOMAIN inflight
    /\ LET s0 == [S EXCEPT !.inflight = RemoveAt(@, i)]
       IN  ApplyWithin(resolveActingAccountDone(s0, inflight[i]), MaxEvents)
    /\ lastCall' = Call("resolutionReturn", inflight[i].account.val.id, NoError)
    /\ UNCHANGED <<now, options, persistedSession, conduitVars, detectorVars>>

\* the handler of AlClientBeforeRequestEvent that the constructor attaches; a request has
\* a headers object or none, and a header is "undefined" when the request lacks it
OutgoingRequest(hasHeaders, authToken, accept) ==
    [hasHeaders |-> hasHeaders, authToken |-> authToken, accept |-> accept]

onBeforeRequestAlways(s, outgoing) ==
    [outgoing EXCEPT !.hasHeaders = TRUE, !.authToken = getToken(s)]

onBeforeRequest(s, outgoing) ==
    IF s.sessionIsActive
    THEN [outgoing EXCEPT !.hasHeaders = TRUE, !.authToken = getToken(s)]
    ELSE outgoing

OutgoingRequests ==
    { OutgoingRequest(FALSE, "undefined", "undefined"),
      OutgoingRequest(TRUE, "undefined", "undefined"),
      OutgoingRequest(TRUE, "undefined", "json"),
      OutgoingRequest(TRUE, "t0", "json") }

\* the client is about to send a request: lastCall holds the token header that it sends
BeforeRequest(outgoing) ==
    /\ lastCall' = Call("beforeRequest", onBeforeRequest(S, outgoing).authToken, NoError)
    /\ UNCHANGED <<now, sessionIsActive, sessionData, resolvedAccount, resolutionGuard,
                   storage, options, notifyStream, persistedSession, microtasks, lookups,
                   inflight, conduitVars, detectorVars>>

CycleInit == Constructed(EmptyStorage) /\ ConduitStatic /\ DetectorStatic

CycleNext ==
    \/ Established
    \/ \E account \in ActingAccounts : ActingAccountSet(account)
    \/ Deactivated
    \/ MicrotaskRun
    \/ \E i \in 1..MaxPending : ResolutionReturned(i)
    \/ \E o \in SessionOptions : SetOptions(o)
    \/ SetTokenInfo("t2", MaxTime + 1)
    \/ \E outgoing \in OutgoingRequests : BeforeRequest(outgoing)

CycleSpec == CycleInit /\ [][CycleNext]_vars

(***************************************************************************)
(* Detection: a detector over a session instance that is authenticated and *)
(* deactivated while detection cycles run                                  *)
(***************************************************************************)
DetectorInit ==
    /\ Constructed(EmptyStorage)
    /\ ConduitStatic
    /\ \E auth0 \in BOOLEAN : Detector(auth0)

Detecting ==
    \/ \E relayed \in RelayedSessions, configured \in BOOLEAN :
           GetSessionReturn(relayed, configured)
    \/ DeleteSessionReturn
    \/ \E tokenInfo \in TokenInfos : TokenInfoReturn(tokenInfo)
    \/ TokenInfoFail
    \/ \E error \in BOOLEAN, accessToken \in AccessTokens :
           CheckSessionReturn(error, accessToken)
    \/ \E error \in BOOLEAN, identity \in Identities : UserInfoReturn(error, identity)

DetectorNext ==
    \/ DetectSession
    \/ Detecting
    \/ SetAuthentication(BaseProposal, NoOptions)
    \/ DeactivateSession
    \/ RunMicrotask
    \/ \E i \in 1..MaxPending : ResolutionReturn(i)
    \/ \E i \in 1..MaxPending : ResolutionFail(i)

DetectorSpec == DetectorInit /\ [][DetectorNext]_vars


(***************************************************************************)
(* Properties of setAuthentication and deactivateSession                   *)
(***************************************************************************)
\* C1: setAuthentication with a schema-valid proposal whose token_expiration is not
\* strictly in the future throws, and the descriptor (with its acting account), the active
\* flag, the resolution guard, the resolved context, the persisted record and the events
\* are what they were before the call
C1_ExpiredProposalRejected ==
    \A proposal \in ValidProposals, opts \in AuthenticationOptions :
        proposal.authentication.token_expiration <= now =>
            LET r == setAuthentication(S, proposal, opts)
            IN  r.error # NoError /\ r.s = S

\* an expired proposal has been rejected while a session was active
C1_Witness ==
    /\ lastCall.op = "setAuthentication"
    /\ lastCall.error = "expired"
    /\ sessionIsActive
    /\ storage.present

\* C2: setAuthentication with a proposal that fails shape validation throws before any
\* mutation: descriptor, active flag, acting account, guard, events and persisted record
\* are unchanged
C2_MalformedProposalRejected ==
    \A proposal \in MalformedProposals, opts \in AuthenticationOptions :
        LET r == setAuthentication(S, proposal, opts)
        IN  r.error # NoError /\ r.s = S

\* a malformed proposal has been rejected while a session was active
C2_Witness ==
    /\ lastCall.op = "setAuthentication"
    /\ lastCall.error = "schema"
    /\ sessionIsActive
    /\ storage.present

\* the properties of the proposal's object that the descriptor's object holds
Carries(object, proposed) ==
    \A f \in DOMAIN proposed.typ :
        proposed.typ[f] # "undefined" =>
            object.typ[f] = proposed.typ[f] /\ object.val[f] = proposed.val[f]
\* the properties the proposal's object omits are the ones the object had before
Keeps(object, before, proposed) ==
    \A f \in DOMAIN proposed.typ :
        proposed.typ[f] = "undefined" =>
            object.typ[f] = before.typ[f] /\ object.val[f] = before.val[f]

\* C3 as stated: after setAuthentication of a valid proposal with a future expiration,
\* from any state of the session, the descriptor's user, account, token and
\* token_expiration equal the proposal's
C3_AuthenticationEqualsProposal ==
    [][ \A input \in AuthenticationInputs :
          ( /\ lastCall'.op = "setAuthentication"
            /\ input[1] \in ValidProposals
            /\ input[1].authentication.token_expiration > now
            /\ SetAuthentication(input[1], input[2]) )
          => ( /\ sessionData'.authentication.user = input[1].authentication.user
               /\ sessionData'.authentication.account = input[1].authentication.account
               /\ sessionData'.authentication.token = input[1].authentication.token
               /\ sessionData'.authentication.token_expiration =
                      input[1].authentication.token_expiration ) ]_vars

\* C3 as amended: after setAuthentication of a valid proposal with a future expiration,
\* from any state of the session, the descriptor's token and token_expiration equal the
\* proposal's, its user and account hold the proposal's value of every property the
\* proposal carries, and keep their earlier value of every property the proposal omits
C3_AuthenticationMergesProposal ==
    \A proposal \in ValidProposals, opts \in AuthenticationOptions :
        proposal.authentication.token_expiration > now =>
            LET r == setAuthentication(S, proposal, opts)
                before == sessionData.authentication
                after == r.s.sessionData.authentication
            IN  /\ r.error = NoError
                /\ Carries(after.user, proposal.authentication.user)
                /\ Keeps(after.user, before.user, proposal.authentication.user)
                /\ Carries(after.account, proposal.authentication.account)
                /\ Keeps(after.account, before.account, proposal.authentication.account)
                /\ after.token = proposal.authentication.token
                /\ after.token_expiration = proposal.authentication.token_expiration

\* a proposal whose user omits the property active has been merged into the descriptor
C3_Witness ==
    /\ lastCall.op = "setAuthentication"
    /\ lastCall.error = NoError
    /\ sessionData.authentication.user.val.id = "u2"
    /\ sessionData.authentication.user.typ["active"] = "boolean"
    /\ sessionData.authentication.token = "t2"

\* C4: when deactivateSession returns, the session is inactive, the descriptor is the null
\* session, persisted storage holds no record and AlSessionEndedEvent has been triggered
C4_DeactivationResets ==
    [][ lastCall'.op = "deactivateSession"
        => ( /\ ~sessionIsActive'
             /\ sessionData' = AlNullSessionDescriptor
             /\ ~storage'.present
             /\ notifyStream' = Append(notifyStream, Event(S, "AlSessionEnded", ""))
           ) ]_vars

\* a session that had been started has been deactivated
C4_Witness ==
    /\ lastCall.op = "deactivateSession"
    /\ Len(notifyStream) >= 2
    /\ notifyStream[1].type = "AlSessionStarted"
    /\ notifyStream[Len(notifyStream)].type = "AlSessionEnded"

(***************************************************************************)
(* Properties of the acting account's resolution                           *)
(***************************************************************************)
Triggered(type) == { j \in DOMAIN notifyStream : notifyStream[j].type = type }

\* C5: in every state where the resolution guard is fulfilled the resolved context is the
\* one of the current acting account, whatever the interleaving of setActingAccount calls
\* and completions of resolutions
C5_GuardedContextIsCurrent ==
    ( resolutionGuard /\ Triggered("AlSessionEnded") = {} )
    => ( /\ resolvedAccount.hasAccount
         /\ resolvedAccount.actingAccount.val.id = sessionData.acting.val.id )

\* the call that takes the session to state s starts no resolution cycle: it issues no
\* request and triggers no changing event
NoCycleStarted(s) ==
    /\ s.microtasks = microtasks
    /\ s.lookups = lookups
    /\ s.inflight = inflight
    /\ \A j \in DOMAIN s.notifyStream :
           j > Len(notifyStream) => s.notifyStream[j].type # "AlActingAccountChanged"

\* C6 as stated: setActingAccount with the ID of the account that is already the acting
\* account issues no request and triggers no changing event, before as well as after the
\* resolution of the first call has completed
C6_SameAccountNeverResolvedAgain ==
    [][ \A account \in ActingAccounts :
          ( /\ lastCall'.op = "setActingAccount"
            /\ account.val.id = sessionData.acting.val.id
            /\ SetActingAccount(account) )
          => NoCycleStarted(S') ]_vars

\* C6 as amended: with metadata resolution enabled, setActingAccount with a descriptor of
\* the account that is already the acting account, called while the resolution guard is
\* fulfilled, issues no request, triggers no changing event and leaves the guard fulfilled
\* and the resolved context as it was; called while the guard is pending, it triggers the
\* changing event and starts a resolution of its own
C6_SameAccountResolvedOnce ==
    \A account \in ActingAccounts :
        ( account.val.id = sessionData.acting.val.id /\ options.resolveAccountMetadata )
        => LET s == setActingAccount(S, account, "none")
           IN  IF resolutionGuard
               THEN /\ NoCycleStarted(s)
                    /\ s.resolutionGuard
                    /\ s.resolvedAccount = resolvedAccount
               ELSE /\ ~s.resolutionGuard
                    /\ Len(s.notifyStream) > Len(notifyStream)
                    /\ s.notifyStream[Len(s.notifyStream)] =
                           Event(s, "AlActingAccountChanged", account.val.id)
                    /\ Len(s.microtasks) = Len(microtasks) + 1

\* setActingAccount has returned the resolved context of the account that was resolved
C6_Witness ==
    /\ lastCall.op = "setActingAccount"
    /\ lastCall.id = sessionData.acting.val.id
    /\ options.resolveAccountMetadata
    /\ resolutionGuard
    /\ resolvedAccount.hasAccount
    /\ resolvedAccount.actingAccount.val.id = lastCall.id
    /\ \E j \in Triggered("AlActingAccountResolved") : notifyStream[j].id = lastCall.id

\* the events of the given type and account among the first n events
Count(type, id, n) ==
    Cardinality({ j \in 1..n : notifyStream[j].type = type /\ notifyStream[j].id = id })

\* C7: every AlActingAccountResolvedEvent of an account comes after an
\* AlActingAccountChangedEvent of that account that no earlier resolved event answers
C7_ChangingBeforeResolved ==
    \A j \in Triggered("AlActingAccountResolved") :
        Count("AlActingAccountResolved", notifyStream[j].id, j)
            <= Count("AlActingAccountChanged", notifyStream[j].id, j - 1)

\* a resolution has completed and triggered its resolved event
C7_Witness ==
    /\ lastCall.op = "resolutionReturn"
    /\ notifyStream # <<>>
    /\ notifyStream[Len(notifyStream)] =
           Event(S, "AlActingAccountResolved", lastCall.id)

(***************************************************************************)
(* C8: a request issued before the conduit is ready is posted to the       *)
(* conduit window exactly once and only after the ready message has been   *)
(* received: nothing is posted while the conduit is not ready, and once    *)
(* it is ready and the request's callback has run, the request has been    *)
(* posted once.                                                            *)
(***************************************************************************)
Posts(requestId) == Cardinality({ i \in DOMAIN posted : posted[i].requestId = requestId })

Waiting(requestId) == \E i \in DOMAIN waiting : waiting[i] = requestId

C8_PreReadyRequestsPostedOnce ==
    /\ posted # <<>> => ready
    /\ ready => conduitWindow # NoWindow
    /\ \A i \in DOMAIN posted : posted[i].window # NoWindow
    /\ \A requestId \in DOMAIN issued :
           issued[requestId].beforeReady =>
               /\ Posts(requestId) <= 1
               /\ ~ready => Posts(requestId) = 0
               /\ ready /\ ~Waiting(requestId) => Posts(requestId) = 1

C8_Witness ==
    \E requestId \in DOMAIN issued :
        issued[requestId].beforeReady /\ ready /\ Posts(requestId) = 1

(***************************************************************************)
(* C9: when the timer of a request that is still pending fires, the        *)
(* request is rejected and its entry leaves the map of pending requests;   *)
(* a reply with the ID of a request that has timed out settles nothing,    *)
(* leaves the map alone and logs a warning.                                *)
(***************************************************************************)
TimedOut(requestId) ==
    requestId \in DOMAIN issued /\ issued[requestId].settled = <<"reject">>

\* the step is the timer of a request that is pending
TimerOfPending ==
    conduitCall'.op = "timeout" /\ conduitCall'.requestId \in requests

\* the step is a reply with the ID of a request that has timed out
LateReply ==
    /\ conduitCall'.op = "message"
    /\ conduitCall'.dispatched # <<>>
    /\ \A i \in DOMAIN conduitCall'.dispatched :
           conduitCall'.dispatched[i] = "onDispatchReply"
    /\ TimedOut(conduitCall'.requestId)

C9_TimeoutRejectsLateReplyWarns ==
    [][ /\ TimerOfPending =>
               /\ conduitCall'.requestId \notin requests'
               /\ issued[conduitCall'.requestId].settled = <<>>
               /\ issued'[conduitCall'.requestId].settled = <<"reject">>
        /\ LateReply =>
               /\ requests' = requests
               /\ issued' = issued
               /\ conduitCall'.console = Len(conduitCall'.dispatched)
               /\ ~conduitCall'.threw ]_vars

C9_Witness ==
    /\ conduitCall.op = "message"
    /\ conduitCall.dispatched = <<"onDispatchReply">>
    /\ conduitCall.console = 1
    /\ TimedOut(conduitCall.requestId)
    /\ conduitCall.requestId \notin requests

(***************************************************************************)
(* C10: a message without data, without a string type, without a string    *)
(* requestId, without a source or an origin, or from an origin that is not *)
(* on the allow-list changes nothing: readiness, conduit window and        *)
(* origin, pending requests and external sessions stay as they are, no     *)
(* handler is dispatched, nothing is logged and nothing is thrown.         *)
(***************************************************************************)
C10_DefectiveMessageIgnored ==
    \A event \in DefectiveMessages : onReceiveMessage(C, event) = C

C10_Witness ==
    /\ conduitCall.op = "message"
    /\ conduitCall.ignored
    /\ conduitCall.console = 0
    /\ conduitCall.dispatched = <<>>
    /\ requests # {}
    /\ ~ready

(***************************************************************************)
(* Properties of the session detector                                      *)
(***************************************************************************)
\* a detection cycle is in progress: the promise in the slot is not settled
InProgress == detectionPromise # NoPromise /\ promises[detectionPromise] = "pending"

\* C11: detection is single-flight: while a cycle is in progress, detectSession returns
\* the promise of that cycle and starts no second cycle (no promise is created, no
\* request is issued), and once a cycle has resolved, true or false, the promise slot is
\* empty: the slot never holds a settled promise, so that the next call detects afresh
C11_SingleFlightDetection ==
    /\ InProgress =>
           LET r == detectSession(S, D)
           IN  r.returned = detectionPromise /\ r.d = D
    /\ detectionPromise # NoPromise => promises[detectionPromise] = "pending"

\* the first half of C11 alone: calls made during a cycle share its promise
SharedWhileInProgress ==
    InProgress =>
        LET r == detectSession(S, D)
        IN  r.returned = detectionPromise /\ r.d = D

\* C12: every detectSession call settles, and settles by resolving with a boolean: a
\* promise is pending, true or false (it is never rejected), and a cycle in progress
\* always waits for a request or a callback whose answer, whatever it is, resolves the
\* promise; no outcome of the relay lookup, of the ingestion, of the introspection or
\* of the authenticator's probe leaves the promise pending with nothing left to answer
C12_DetectionSettles ==
    /\ \A p \in DOMAIN promises : promises[p] \in {"pending", "true", "false"}
    /\ InProgress => cycle.stage # "idle"

\* a detectSession promise is resolved with value in this step
ResolvedWith(value) ==
    \E p \in DOMAIN promises' :
        /\ promises'[p] = value
        /\ p \in DOMAIN promises => promises[p] = "pending"

\* C13: the result of a detection matches the session: when a detectSession promise
\* resolves true the session is active and holds a token, and when it resolves false
\* the session is inactive and its data is the unauthenticated null session
C13_ResultMatchesSession ==
    [][/\ ResolvedWith("true") =>
              sessionIsActive' /\ sessionData'.authentication.token # ""
       /\ ResolvedWith("false") =>
              ~sessionIsActive' /\ sessionData' = AlNullSessionDescriptor]_vars

\* C14: when the session is active and detectSession starts a cycle (the promise slot
\* is empty), the promise it returns is resolved true by the call itself, and the call
\* issues no request: no relay request, no token introspection, no probe of the
\* third-party authenticator, and it leaves the cycle waiting for nothing
C14_ActiveSessionDetectedAtOnce ==
    (sessionIsActive /\ detectionPromise = NoPromise) =>
        LET r == detectSession(S, D)
        IN  /\ r.d.promises[r.returned] = "true"
            /\ r.returned \notin DOMAIN promises
            /\ r.d.requested = requested
            /\ r.d.cycle = Idle

C14_Witness ==
    /\ lastCall.op = "detectSession"
    /\ sessionIsActive
    /\ promises = <<"true">>
    /\ requested = <<>>
    /\ cycle = Idle

(***************************************************************************)
(* Properties of activation, of the accessors and of the constructor       *)
(***************************************************************************)
\* activateSession emits the session-started event on a transition from inactive to
\* active, and nothing otherwise
StartedOnTransitionOnly ==
    LET s == activateSession(S)
    IN  IF ~sessionIsActive /\ s.sessionIsActive
        THEN s.notifyStream =
                 Append(notifyStream,
                        Event(S, "AlSessionStarted",
                              sessionData.authentication.account.val.id))
        ELSE s.notifyStream = notifyStream

\* C15: activateSession returns true, the session being active after the call, only
\* if the stored token_expiration is strictly in the future at the time of the call;
\* the session-started event is emitted only on a transition from inactive to active,
\* so that a call on an active session emits nothing
C15_ActivationOnlyWithFutureExpiry ==
    /\ activateSession(S).sessionIsActive =>
           sessionData.authentication.token_expiration > now
    /\ StartedOnTransitionOnly

\* C16: while the session is inactive getPrimaryAccountId and getActingAccountId
\* return null, and not the ID "0" of the null session's accounts; while it is active
\* they return the IDs of the descriptor's authentication.account and acting account
C16_AccountIdsNullWhenInactive ==
    /\ ~sessionIsActive =>
           /\ getPrimaryAccountId(S) = NullId
           /\ getActingAccountId(S) = NullId
    /\ sessionIsActive =>
           /\ getPrimaryAccountId(S) = sessionData.authentication.account.val.id
           /\ getActingAccountId(S) = sessionData.acting.val.id
    /\ NullId # NullAccount.val.id

C16_Witness ==
    /\ lastCall.op = "deactivateSession"
    /\ ~sessionIsActive
    /\ sessionData.authentication.account.val.id = "0"
    /\ sessionData.acting.val.id = "0"
    /\ Triggered("AlSessionStarted") # {}

\* C17: when the deferred reinstatement of an unexpired persisted record fails (the
\* record is malformed: its authentication.account is not an object), the session is
\* deactivated: storage is cleared, the session-ended event is emitted, and the session
\* is inactive
C17_FailedReinstatementDeactivates ==
    (lastCall.op = "reinstate" /\ lastCall.error = "schema") =>
        /\ ~sessionIsActive
        /\ storage = EmptyStorage
        /\ notifyStream = <<Event(S, "AlSessionEnded", "")>>

\* the constructor leaves in storage only a record that is not expired, which it is
\* about to reinstate; the session is inactive
ExpiredRecordDestroyed ==
    lastCall.op = "constructor" =>
        /\ ~sessionIsActive
        /\ persistedSession = storage
        /\ storage.present => storage.record.authentication.token_expiration >= now

\* the reinstatement of a schema-valid record that expires in the future activates the
\* session with the record's token
ValidRecordReinstated ==
    (/\ persistedSession.present
     /\ ~persistedSession'.present
     /\ validateSessionDescriptor(persistedSession.record)
     /\ persistedSession.record.authentication.token_expiration > now)
    => /\ sessionIsActive'
       /\ sessionData'.authentication.token = persistedSession.record.authentication.token
       /\ sessionData'.authentication.token_expiration =
              persistedSession.record.authentication.token_expiration

AuthenticationMethods ==
    {"authenticate", "authenticateWithSessionToken", "authenticateWithAccessToken"}

\* C19: when authenticate, authenticateWithSessionToken or authenticateWithAccessToken
\* resolves true, the session is active and holds the token the backend returned, and
\* setAuthentication has not rejected the backend's descriptor as malformed or expired
C19_TrueMeansActive ==
    [][lastCall'.op \in AuthenticationMethods =>
           /\ sessionIsActive'
           /\ sessionData'.authentication.token = lastCall'.id
           /\ lastCall'.error = NoError]_vars

\* C20: when the requests of an acting account resolution fail, the promise of the
\* transition is rejected and the session is not rolled back: it is as active as it
\* was, and its token, user, primary account and acting account, with the persisted
\* record and the events emitted, are what they were
C20_ResolutionFailureKeepsSession ==
    [][(lastCall'.op = "resolutionFail" /\ lastCall'.error = "request") =>
           /\ sessionIsActive' = sessionIsActive
           /\ sessionData' = sessionData
           /\ storage' = storage
           /\ notifyStream' = notifyStream]_vars

C20_Witness ==
    /\ lastCall = Call("resolutionFail", "a2", "request")
    /\ sessionIsActive
    /\ sessionData.authentication.token = "t1"
    /\ sessionData.authentication.account.val.id = "a1"
    /\ sessionData.acting.val.id = "a2"
    /\ ~resolutionGuard

(***************************************************************************)
(* C21: a ready message from an origin on the allow-list makes the conduit *)
(* ready, with the window and origin of the message; a getSession issued   *)
(* after that posts exactly one message, of its own type and ID, to the    *)
(* conduit window; its promise stays pending until a reply with its ID     *)
(* arrives and is then resolved with the session that the reply carries,   *)
(* null when the conduit holds none.                                       *)
(***************************************************************************)
IssuedWhenReady(requestId) ==
    /\ issued[requestId].type = "conduit.getSession"
    /\ ~issued[requestId].beforeReady

C21_ReadyThenGetSessionResolves ==
    /\ \A event \in ReadyMessages :
           LET c == onReceiveMessage(C, event)
           IN  c.ready /\ c.conduitWindow = event.source /\ c.conduitOrigin = event.origin
    /\ \A requestId \in DOMAIN issued :
           IssuedWhenReady(requestId) =>
               /\ Posts(requestId) <= 1
               /\ ~Waiting(requestId) => Posts(requestId) = 1
               /\ \A i \in DOMAIN posted :
                      posted[i].requestId = requestId =>
                          /\ posted[i].type = "conduit.getSession"
                          /\ posted[i].window \in { m.source : m \in ReadyMessages }
               /\ requestId \in requests => getSessionPromise(C, requestId) = Pending
               /\ requestId \notin requests =>
                      getSessionPromise(C, requestId).state = "resolved"
    /\ \A event \in SessionReplies :
           event.requestId \in requests /\ IssuedWhenReady(event.requestId) =>
               getSessionPromise(onReceiveMessage(C, event), event.requestId)
                   = [state |-> "resolved", value |-> event.session]

C21_Witness ==
    \E requestId \in DOMAIN issued :
        /\ IssuedWhenReady(requestId)
        /\ Posts(requestId) = 1
        /\ conduitCall.op = "message"
        /\ conduitCall.requestId = requestId
        /\ getSessionPromise(C, requestId) = [state |-> "resolved", value |-> "s1"]
        /\ \E other \in DOMAIN issued :
               /\ IssuedWhenReady(other)
               /\ getSessionPromise(C, other) = [state |-> "resolved", value |-> "null"]

(***************************************************************************)
(* C22: over the start and stop calls of any client instances the          *)
(* reference count is the number of unmatched starts (a start adds one, a  *)
(* stop takes one off unless the count is zero) and is never negative; the *)
(* conduit frame is in the document exactly while the count is above zero; *)
(* and one message listener at most is registered.                         *)
(***************************************************************************)
CountsUnmatchedStarts ==
    /\ conduitCall'.op = "start" => refCount' = refCount + 1
    /\ conduitCall'.op = "stop" => refCount' = IF refCount > 0 THEN refCount - 1 ELSE 0

FramePresentWhileCounted ==
    /\ refCount >= 0
    /\ frames \in {0, 1}
    /\ frames = 1 <=> refCount > 0

ListenerRegisteredOnce == Cardinality(listeners) <= 1

C22_ReferenceCountedFrame ==
    /\ [][CountsUnmatchedStarts]_vars
    /\ []FramePresentWhileCounted
    /\ []ListenerRegisteredOnce

(***************************************************************************)
(* The consumers of the resolution guard                                   *)
(***************************************************************************)
\* resolutionGuard.then( callback ): the promise is settled once the guard is fulfilled
Guarded(s, value) ==
    IF s.resolutionGuard THEN [state |-> "resolved", value |-> value] ELSE Pending

resolved(s) == Guarded(s, "undefined")

getPrimaryEntitlementsSync(s) ==
    IF ~s.sessionIsActive THEN "null" ELSE s.resolvedAccount.primaryEntitlements

getPrimaryEntitlements(s) == Guarded(s, getPrimaryEntitlementsSync(s))

getEffectiveEntitlements(s) == Guarded(s, s.resolvedAccount.entitlements)

(***************************************************************************)
(* C23: while the session is inactive, before any authentication as well   *)
(* as after a deactivation that follows a resolved session, the promises   *)
(* of resolved(), getPrimaryEntitlements() and getEffectiveEntitlements()  *)
(* stay pending, so that no consumer receives entitlement data.            *)
(***************************************************************************)
Unauthenticated ==
    /\ ~sessionIsActive
    /\ \/ notifyStream = <<>>
       \/ lastCall.op = "deactivateSession" /\ Triggered("AlSessionStarted") # {}

C23_InactiveNeverResolves ==
    Unauthenticated =>
        /\ resolved(S) = Pending
        /\ getPrimaryEntitlements(S) = Pending
        /\ getEffectiveEntitlements(S) = Pending

(***************************************************************************)
(* C24: when the client is about to send a request while the session is    *)
(* active, the request gets headers if it had none and its                 *)
(* X-AIMS-Auth-Token header is the session's current token, its other      *)
(* headers staying as they are; while the session is inactive the request  *)
(* is left exactly as it was.                                              *)
(***************************************************************************)
C24_TokenHeaderWhenActive ==
    \A outgoing \in OutgoingRequests :
        LET sent == onBeforeRequest(S, outgoing)
        IN  IF sessionIsActive
            THEN /\ sent.hasHeaders
                 /\ sent.authToken = sessionData.authentication.token
                 /\ sent.accept = outgoing.accept
            ELSE sent = outgoing

C24_Witness ==
    /\ lastCall.op = "beforeRequest"
    /\ sessionIsActive
    /\ lastCall.id = "t2"
    /\ sessionData.authentication.token = "t2"

(***************************************************************************)
(* C25: once setAuthentication( proposal ) has accepted a proposal whose   *)
(* expiration is in the future, the session is active, getToken() is the   *)
(* token of the proposal, and getActingAccountId() is the ID of the        *)
(* proposal's acting account if it has one and of its authenticated        *)
(* account otherwise; every valid proposal that expires in the future is   *)
(* accepted.                                                               *)
(***************************************************************************)
C25_AuthenticatedStateMatchesProposal ==
    \A proposal \in ValidProposals :
        LET r == setAuthentication(S, proposal, NoOptions)
        IN  /\ proposal.authentication.token_expiration > now <=> r.error = NoError
            /\ r.error = NoError =>
                   /\ r.s.sessionIsActive
                   /\ getToken(r.s) = proposal.authentication.token
                   /\ getActingAccountId(r.s) =
                          IF proposal.hasActing
                          THEN proposal.acting.val.id
                          ELSE proposal.authentication.account.val.id
                   /\ ~proposal.hasActing =>
                          getActingAccountId(r.s) = getPrimaryAccountId(r.s)

C25_Witness ==
    /\ lastCall = Call("setAuthentication", "", NoError)
    /\ sessionIsActive
    /\ getToken(S) = "t1"
    /\ getPrimaryAccountId(S) = "a1"
    /\ getActingAccountId(S) = "a2"

(***************************************************************************)
(* C26: the handlers of every AlActingAccountChangedEvent find the         *)
(* resolution guard pending: the guard has been rescinded before the event *)
(* is triggered, with metadata resolution enabled or disabled.             *)
(***************************************************************************)
C26_ChangingOnlyWhileGuardPending ==
    \A j \in Triggered("AlActingAccountChanged") : ~notifyStream[j].guard

(***************************************************************************)
(* C27: with metadata resolution disabled, setActingAccount with an        *)
(* account descriptor makes that account the acting account, triggers the  *)
(* changing event and then the resolved event of that account, leaves a    *)
(* resolved context with empty entitlements and the guard fulfilled, and   *)
(* issues no request: no lookup, no resolution, no continuation.           *)
(***************************************************************************)
C27_DisabledResolutionShortCircuits ==
    \A account \in ActingAccounts :
        ~options.resolveAccountMetadata =>
            LET s == setActingAccount(S, account, "none")
                n == Len(s.notifyStream)
            IN  /\ s.sessionData.acting = account
                /\ n >= Len(notifyStream) + 2
                /\ s.notifyStream[n - 1].type = "AlActingAccountChanged"
                /\ s.notifyStream[n - 1].id = account.val.id
                /\ s.notifyStream[n].type = "AlActingAccountResolved"
                /\ s.notifyStream[n].id = account.val.id
                /\ s.resolvedAccount.actingAccount = account
                /\ s.resolvedAccount.entitlements = NoEntitlements
                /\ s.resolvedAccount.primaryEntitlements = NoEntitlements
                /\ s.resolutionGuard
                /\ s.lookups = lookups
                /\ s.inflight = inflight
                /\ s.microtasks = microtasks

C27_Witness ==
    /\ lastCall.op = "setActingAccount"
    /\ ~options.resolveAccountMetadata
    /\ Cardinality(Triggered("AlActingAccountChanged")) >= 2
    /\ notifyStream[Len(notifyStream)].type = "AlActingAccountResolved"
    /\ notifyStream[Len(notifyStream)].id = lastCall.id
    /\ resolvedAccount.entitlements = NoEntitlements
    /\ resolutionGuard
    /\ inflight = <<>> /\ microtasks = <<>> /\ lookups = <<>>

(***************************************************************************)
(* C28: setActingAccount with an account descriptor leaves the bound       *)
(* location as it was if the account can access it, and binds the          *)
(* account's default location otherwise (also when no location was bound). *)
(***************************************************************************)
C28_BoundLocationPreferred ==
    \A account \in ActingAccounts :
        LET s == setActingAccount(S, account, "none")
            previous == sessionData.boundLocationId
        IN  /\ s.sessionData.acting = account
            /\ s.sessionData.boundLocationId =
                   IF previous \in account.val.accessible_locations
                   THEN previous
                   ELSE account.val.default_location

\* account a2, whose default location is L2, has become the acting account and the
\* location L1 is still bound
C28_Witness ==
    /\ lastCall = Call("setActingAccount", "a2", NoError)
    /\ sessionData.acting = AccountA2
    /\ sessionData.boundLocationId = "L1"
    /\ AccountA2.val.default_location = "L2"

(***************************************************************************)
(* C29: the promise of awaitExternalSession( location ) is resolved once   *)
(* an externalSessionReady notification for the location has been          *)
(* received, whether the notification comes before or after the call, and  *)
(* never before one has been received; and handling a notification never   *)
(* throws, in whatever order and number calls and notifications come.      *)
(***************************************************************************)
ExternalSessionKnown(locationId) == externalSessions[locationId] \in {"established", "resolved"}

NotifiedOf(locationId) ==
    /\ conduitCall'.op = "message"
    /\ \E i \in DOMAIN conduitCall'.dispatched :
           conduitCall'.dispatched[i] = "onExternalSessionEstablished"

ResolvedByNotificationOnly ==
    \A locationId \in AwaitedLocations :
        /\ ExternalSessionKnown(locationId) => ExternalSessionKnown(locationId)'
        /\ ~ExternalSessionKnown(locationId) /\ ExternalSessionKnown(locationId)' => NotifiedOf(locationId)
        /\ \A event \in ExternalSessionMessages :
               event.locationId = locationId =>
                   onReceiveMessage(C, event).externalSessions[locationId]
                       \in {"established", "resolved"}

C29_ExternalSessionResolves ==
    /\ [][ResolvedByNotificationOnly]_vars
    /\ [](~conduitCall.threw)

(***************************************************************************)
(* C30: an accepted reply with the ID of a pending request resolves that   *)
(* request with the data of the reply and removes its entry, and leaves    *)
(* every other request and the rest of the state as they are, without a    *)
(* warning; an accepted reply with an ID that no pending request has       *)
(* changes no state and logs one warning.                                  *)
(***************************************************************************)
Replies == SessionReplies \cup ResourceReplies

\* c is state C but for its pending requests and the requests it has issued
SameButRequests(c) ==
    [c EXCEPT !.requests = requests, !.issued = issued,
              !.console = 0, !.dispatched = <<>>] = C

C30_ReplySettlesItsRequestOnly ==
    \A event \in Replies :
        LET c == onReceiveMessage(C, event)
            requestId == event.requestId
        IN  /\ c.dispatched = <<"onDispatchReply">>
            /\ ~c.threw
            /\ SameButRequests(c)
            /\ IF requestId \in requests
               THEN /\ c.requests = requests \ {requestId}
                    /\ issued[requestId].settled = <<>>
                    /\ c.issued[requestId].settled = <<"resolve">>
                    /\ c.issued[requestId].values = <<Data(event)>>
                    /\ \A other \in DOMAIN issued :
                           other # requestId => c.issued[other] = issued[other]
                    /\ c.console = 0
               ELSE /\ c.requests = requests
                    /\ c.issued = issued
                    /\ c.console = 1

C30_Witness ==
    /\ conduitCall.op = "message"
    /\ conduitCall.dispatched = <<"onDispatchReply">>
    /\ conduitCall.console = 0
    /\ conduitCall.requestId = 1
    /\ requests = {2}
    /\ issued[1].settled = <<"resolve">>
    /\ issued[1].values[1].session = "s1"
    /\ issued[2].settled = <<>>
(***************************************************************************)
(* C31: every getGlobalResource call settles in the end: with the resource *)
(* when the reply to it carries one, with a rejection when the reply       *)
(* carries an error or no resource, and with a rejection by its timer when *)
(* no reply has arrived by then, whether or not the conduit ever becomes   *)
(* ready                                                                   *)
(***************************************************************************)
GlobalResourceCalls == { id \in 1..Len(issued) : issued[id].type = "conduit.getGlobalResource" }

\* the outcome of a settled call is that of the first of its reply and its timer
SettlesAsAnswered ==
    \A id \in GlobalResourceCalls :
        LET r == issued[id]
            promise == getGlobalResourcePromise(C, id)
        IN  /\ (promise = Pending) = (id \in requests)
            /\ id \in requests => id \in timers
            /\ r.settled # <<>> /\ r.settled[1] = "resolve" =>
                   /\ r.values[1].requestId = id
                   /\ r.values[1].resource # "undefined" =>
                          promise = [state |-> "resolved", value |-> r.values[1].resource]
                   /\ r.values[1].resource = "undefined" /\ r.values[1].error # "undefined" =>
                          promise = [state |-> "rejected", value |-> r.values[1].error]
                   /\ r.values[1].resource = "undefined" /\ r.values[1].error = "undefined" =>
                          promise = [state |-> "rejected", value |-> FailedToRetrieve]
            /\ r.settled # <<>> /\ r.settled[1] = "reject" =>
                   promise = [state |-> "rejected", value |-> "Error"]

C31_GlobalResourceSettles ==
    /\ []SettlesAsAnswered
    /\ \A id \in 1..MaxRequests :
           (id \in GlobalResourceCalls) ~>
               (id \in GlobalResourceCalls /\ getGlobalResourcePromise(C, id) # Pending)

\* one call was answered with the resource, the other was rejected by its timer
C31_Witness ==
    /\ Len(issued) = 2
    /\ getGlobalResourcePromise(C, 1) = [state |-> "resolved", value |-> "r1"]
    /\ getGlobalResourcePromise(C, 2) = [state |-> "rejected", value |-> "Error"]

(***************************************************************************)
(* C32: every message that is posted goes to the window that the last      *)
(* accepted conduit.ready message came from, and is addressed to the        *)
(* accounts origin of the US residency, whichever origin of the allow-list  *)
(* that message came from                                                   *)
(***************************************************************************)
\* conduitWindow is the source of the last conduit.ready message that was dispatched
HandshakeSetsWindow ==
    \A event \in Messages :
        LET c == onReceiveMessage(C, event)
        IN  IF c.dispatched = <<"onConduitReady">>
            THEN /\ event.type = "conduit.ready"
                 /\ getNodeByURI(event.origin) \in originWhitelist
                 /\ c.conduitWindow = event.source
                 /\ c.conduitOrigin = event.origin
            ELSE /\ c.conduitWindow = conduitWindow
                 /\ c.conduitOrigin = conduitOrigin

PostedToHandshakeWindow ==
    /\ conduitWindow' # conduitWindow =>
           conduitCall'.op = "message" /\ conduitCall'.dispatched = <<"onConduitReady">>
    /\ posted' # posted => conduitCall'.op = "post"
    /\ conduitCall'.op = "post" =>
           /\ conduitWindow # NoWindow
           /\ posted' = Append(posted, [type |-> issued[conduitCall'.requestId].type,
                                        requestId |-> conduitCall'.requestId,
                                        window |-> conduitWindow,
                                        targetOrigin |-> AccountsOrigin])

C32_PostedToHandshakeWindow == [][PostedToHandshakeWindow]_vars /\ []HandshakeSetsWindow

\* two requests were posted, to the windows of two handshakes, the second of which came
\* from the legacy origin
C32_Witness ==
    /\ Len(posted) = 2
    /\ posted[1].window = "w1" /\ posted[1].targetOrigin = AccountsOrigin
    /\ posted[2].window = "w2" /\ posted[2].targetOrigin = AccountsOrigin
    /\ conduitOrigin = LegacyOrigin

(***************************************************************************)
(* C33: when the conduit returns a session that cannot be ingested (its    *)
(* normalization fails or setAuthentication rejects it), the detector      *)
(* requests deleteSession of the conduit, the cycle resolves false with    *)
(* the session inactive, and checkSession is not requested in that cycle   *)
(***************************************************************************)
\* r is where the handler leaves the session and the detector d: a deleteSession request
\* has left, nothing else has, and the cycle resolves false once it has returned
DeletedAndFailed(r, d) ==
    /\ r.d.requested = Append(d.requested, "deleteSession")
    /\ r.d.cycle.stage = "deleteSession"
    /\ ~r.s.sessionIsActive
    /\ onDetectionFail(r.d, d.cycle.promise).promises[d.cycle.promise] = "false"

Rejected(s, session) == setAuthentication(s, session, NoOptions).error # NoError

C33_UningestableSessionDeleted ==
    /\ cycle.stage = "getSession" /\ ~sessionIsActive =>
           \A relayed \in RelayedSessions \ {NoSession} :
               LET n == normalizeSessionDescriptor(relayed.session)
               IN  \/ n.state = "rejected"
                   \/ n.state = "resolved" /\ Rejected(S, n.session)
                   => DeletedAndFailed(onSession(S, D, relayed, useAuth0, TRUE), D)
    /\ cycle.stage = "getTokenInfo" /\ cycle.via = "conduit" /\ ~sessionIsActive =>
           /\ DeletedAndFailed([s |-> S, d |-> onIngestionFailed(D)], D)
           /\ \A tokenInfo \in TokenInfos :
                  Rejected(S, onTokenInfo(cycle.session, tokenInfo)) =>
                      DeletedAndFailed(onIngested(S, D, onTokenInfo(cycle.session, tokenInfo)), D)

(***************************************************************************)
(* C34: getTokenExpiration never throws; it returns the exp claim of a     *)
(* token of three segments whose second segment is base64-encoded JSON     *)
(* with an exp property, and 0 of any other token; a descriptor that       *)
(* carries only a token and is normalized to the expiration 0 does not     *)
(* activate the session                                                    *)
(***************************************************************************)
Decodable(jwt) ==
    /\ jwt.segments = 3
    /\ jwt.claims.base64
    /\ jwt.claims.text = "object"
    /\ jwt.claims.hasExp

\* the descriptors that the normalization of a token-only descriptor ends in
Normalized(token) ==
    { onTokenInfo(normalizeSessionDescriptor(TokenOnly(token)).session, tokenInfo) :
        tokenInfo \in TokenInfos }

C34_TokenExpirationDecoded ==
    /\ \A jwt \in Jwts :
           LET r == getTokenExpiration(jwt)
           IN  /\ ~r.threw
               /\ r.value = IF Decodable(jwt) THEN jwt.claims.exp ELSE 0
    /\ \A token \in {"t1", "t2"} : \A session \in Normalized(token) :
           session.authentication.token_expiration = 0 /\ ~sessionIsActive =>
               LET r == setAuthentication(S, session, NoOptions)
               IN  r.error # NoError /\ ~r.s.sessionIsActive

(***************************************************************************)
(* C35: storage holds a session record only while the session is active,   *)
(* whatever the interleaving of the session's operations and of the        *)
(* continuations behind their awaits                                       *)
(***************************************************************************)
C35_StoredOnlyWhileActive == storage.present => sessionIsActive

(***************************************************************************)
(* C36: when setActingAccount is called with account A and then with       *)
(* another account B before the resolution of A has completed, then once   *)
(* both resolutions have completed, in whichever order, the resolved       *)
(* context is that of B and the last resolved event is that of B           *)
(***************************************************************************)
\* the changing events i and j are those of two calls in a row, the second of which was
\* made before the resolution of the first had completed, and is the last call
Overlapping(i, j) ==
    /\ i < j
    /\ notifyStream[i].id # notifyStream[j].id
    /\ \A k \in Triggered("AlActingAccountChanged") : k <= i \/ k = j
    /\ \A k \in Triggered("AlActingAccountResolved") : k < i \/ k > j

BothCompleted(j) ==
    /\ microtasks = <<>> /\ lookups = <<>> /\ inflight = <<>>
    /\ Cardinality({ k \in Triggered("AlActingAccountResolved") : k > j }) = 2

C36_LastRequestedAccountResolved ==
    \A i, j \in Triggered("AlActingAccountChanged") :
        /\ sessionIsActive
        /\ Triggered("AlSessionEnded") = {}
        /\ Overlapping(i, j)
        /\ BothCompleted(j)
        => /\ resolvedAccount.actingAccount.val.id = notifyStream[j].id
           /\ notifyStream[Len(notifyStream)] =
                  [Event(S, "AlActingAccountResolved", notifyStream[j].id) EXCEPT !.guard = TRUE]

(***************************************************************************)
(* C37: the promise of a request is settled at most once, by a reply or by *)
(* its timer and never by both; once its entry is removed, neither a later *)
(* reply with its ID nor its timer changes the outcome or brings the entry *)
(* back                                                                    *)
(***************************************************************************)
\* resolve and reject of a request are called once at most, and the entry is there
\* exactly until then
SettledOnce ==
    \A id \in 1..Len(issued) :
        /\ Len(issued[id].settled) <= 1
        /\ (id \in requests) = (issued[id].settled = <<>>)

RemovedForGood ==
    \A id \in 1..Len(issued) :
        id \notin requests => id \notin requests' /\ issued'[id] = issued[id]

C37_RequestSettlesOnce == []SettledOnce /\ [][RemovedForGood]_vars

\* the timer of a request fires after the reply has resolved it
C37_Witness ==
    /\ conduitCall.op = "timeout"
    /\ conduitCall.requestId \in 1..Len(issued)
    /\ issued[conduitCall.requestId].settled = <<"resolve">>
    /\ conduitCall.requestId \notin requests

(***************************************************************************)
(* C38: between two session-started events of an instance there is a       *)
(* session-ended event                                                     *)
(***************************************************************************)
C38_StartedOnlyAfterEnded ==
    \A i, j \in Triggered("AlSessionStarted") :
        i < j => \E k \in Triggered("AlSessionEnded") : i < k /\ k < j

\* a session has started, ended, and started again
C38_Witness ==
    \E i, j \in Triggered("AlSessionStarted") :
        /\ i < j
        /\ \E k \in Triggered("AlSessionEnded") : i < k /\ k < j
        /\ sessionIsActive

(***************************************************************************)
(* C39: when setActingAccount is called with the account ID X and then     *)
(* with another ID Y while the lookup of X is pending, the acting account  *)
(* is Y once both lookups have returned, in whichever order they return    *)
(***************************************************************************)
\* the session after setActingAccount( x ) and setActingAccount( y ) in a row: the two
\* lookups are the last two that are pending
BothRequested(x, y) == setActingAccountById(setActingAccountById(S, x, "none").s, y, "none").s

\* the two lookups return: first == 0, that of x, then that of y; first == 1, that of y,
\* then that of x
BothReturned(x, y, first) ==
    LET s == BothRequested(x, y)
        n == Len(s.lookups)
    IN  onAccountDetails(onAccountDetails(s, n - 1 + first), n - 1)

C39_LastRequestedAccountActs ==
    \A x, y \in AccountIds :
        x # y =>
            /\ BothReturned(x, y, 0).sessionData.acting.val.id = y
            /\ BothReturned(x, y, 1).sessionData.acting.val.id = y

(***************************************************************************)
(* C40: once stop() has taken the reference count to zero and removed the  *)
(* frame, the conduit no longer counts as ready: a request issued from     *)
(* then on is not posted to the window of the removed frame, and is posted *)
(* only after a new conduit.ready message                                  *)
(***************************************************************************)
\* stop() removes the frame: the conduit is not ready any more
StopResetsReadiness == frames' < frames /\ refCount' = 0 => ~ready'

\* a request is posted only while the conduit is ready, so that after a
\* stop() it would wait for the next conduit.ready message
PostedWhenReady == conduitCall'.op = "post" => ready

C40_StoppedConduitNotReady == [][StopResetsReadiness /\ PostedWhenReady]_vars

====
